---- MODULE Spec2Model ----
(***************************************************************************)
(* Model of the arbitrage engine of autofutures:                           *)
(*   backend/services/trade_engine.py      (TradeEngine)                   *)
(*   backend/services/arbitrage_scanner.py (ArbitrageScanner)              *)
(*   backend/services/exchange_service.py  (find_arbitrage_opportunities)  *)
(* The services run on one asyncio event loop: a coroutine runs without    *)
(* interruption from one suspension point to the next, so every action     *)
(* below is the code between two suspension points.  "await _add_log(..)"  *)
(* does not suspend (_add_log contains no await); asyncio.sleep, a ticker  *)
(* fetch and awaiting an unfinished task do.                               *)
(* The trade engine's money is in cents, the scanner's in USDT with fees   *)
(* in 1/FeeDen USDT; percentages are in hundredths of a percent.           *)
(***************************************************************************)
EXTENDS Integers, Sequences, FiniteSets, TLC

\* ---------------------------------------------------------------- bounds
MaxCalls == 3        \* client calls (start_trading, stop_trading, update_parameters)
MaxSteps == 7        \* resumptions of loop tasks that are not cancelled
MaxScanCalls == 3    \* start_scanning and stop_scanning calls
MaxLogs == 103
MaxTrades == 2
MaxRunLogs == 15       \* log entries emitted in the log buffer runs
MaxNetSteps == 5       \* clock advances and _check_network_status calls

\* ------------------------------------------------------ program constants
LogCap == 100        \* trade_engine.py:298-299

Users == {"u1", "u2"}
\* the users whose clients issue calls in Spec
Actors == {"u1"}

NoTask == 0
Absent == "absent"
\* an optional record that is not there (None / missing dict entry)
None == [none |-> TRUE]

\* settings are reduced to their trade_type entry; "no_trade_type" is a
\* settings dict without that key
SettingsSet == {"arbitrage", "margin", "no_trade_type"}

\* trade parameter sets (params.dict() of TradeParams)
P1 == [coin |-> "BTC", min_profit_threshold |-> 30, order_size |-> 10000, frequency |-> "medium"]
P2 == [coin |-> "ETH", min_profit_threshold |-> 10, order_size |-> 100000, frequency |-> "high"]
ParamsSet == {P1, P2}
\* parameter sets start_trading is called with
StartParams == {P1}

\* ask/bid levels quoted by the user's connected exchanges
PriceLevels == {100, 125}
UserExchanges == <<"binance", "gateio">>

VARIABLES
    active_bots,      \* user -> "absent" | "True" | "False"
    bot_tasks,        \* user -> task id, NoTask when the user has no entry
    user_settings,    \* user -> settings | "absent"
    trade_params,     \* user -> params | None
    active_trades,    \* user -> sequence of trade records
    trade_history,    \* user -> sequence of trade records (append order)
    bot_logs,         \* user -> sequence of log entries, index 1 is list index 0
    pnl_data,         \* user -> accumulator | None
    log_seq,          \* user -> number of entries emitted so far (uuid / timestamp of an entry)
    trade_seq,        \* number of trade ids handed out (uuid4)
    tasks,            \* sequence of loop tasks created so far
    stop_calls,       \* sequence of stop_trading invocations
    calls,            \* number of client calls made so far
    steps,            \* number of loop task resumptions so far
    start_outcome,    \* user -> how the latest start_trading call of the user ended
    stopped_since     \* user -> a stop_trading that flipped the flag has returned and no start_trading was called since

VARIABLES
    active_scans,         \* user -> registered scan session | None
    opportunities_cache,  \* user -> sequence of opportunities
    scan_tasks,           \* sequence of scan loop tasks created so far
    scan_calls,           \* number of start_scanning / stop_scanning calls so far
    scan_input,           \* the arguments and ticker answers of a manual_scan
    scan_result,          \* what that manual_scan did, None before it ran
    calc_input,           \* the arguments of one profit calculation
    calc_result,          \* what a calculation on calc_input returned, None before it ran
    cache,                \* the analyzer's network status cache: cache_key -> entry | None
    now,                  \* datetime.now(), in whole seconds since the analyzer was built
    network_result,       \* what the latest _check_network_status call did, None before it ran
    network_steps         \* number of clock advances and _check_network_status calls so far

scanVars == <<active_scans, opportunities_cache, scan_tasks, scan_calls>>
netVars == <<cache, now, network_result, network_steps>>
findVars == <<scan_input, scan_result, calc_input, calc_result, netVars>>

tradeVars == <<active_bots, bot_tasks, user_settings, trade_params, active_trades,
               trade_history, bot_logs, pnl_data, log_seq, trade_seq, tasks,
               stop_calls, calls, steps, start_outcome, stopped_since>>

vars == <<tradeVars, scanVars, findVars>>

\* ------------------------------------------------------------- _add_log
LogStatus(kind) == IF kind = "search" THEN "active" ELSE "completed"

\* _add_log that cuts the buffer from the wrong end
AddLogKeepsOldest(logs, n, kind, msg) ==
    LET log == [n |-> n + 1, kind |-> kind, msg |-> msg, status |-> LogStatus(kind)]
        ins == <<log>> \o logs
    IN  IF Len(ins) > LogCap THEN SubSeq(ins, 2, LogCap + 1) ELSE ins

AddLog(logs, n, kind, msg) ==
    LET log == [n |-> n + 1, kind |-> kind, msg |-> msg, status |-> LogStatus(kind)]
        ins == <<log>> \o logs
    IN  IF Len(ins) > LogCap THEN SubSeq(ins, 1, LogCap) ELSE ins

\* several _add_log calls in a row; entries is a sequence of <<kind, msg>>
RECURSIVE AddLogs(_, _, _)
AddLogs(logs, n, entries) ==
    IF entries = <<>> THEN logs
    ELSE AddLogs(AddLog(logs, n, Head(entries)[1], Head(entries)[2]), n + 1, Tail(entries))

Emit(u, entries) ==
    /\ bot_logs' = [bot_logs EXCEPT ![u] = AddLogs(@, log_seq[u], entries)]
    /\ log_seq' = [log_seq EXCEPT ![u] = @ + Len(entries)]

\* ------------------------------------------------------------------ Init
TradeInit ==
    /\ active_bots = [u \in Users |-> Absent]
    /\ bot_tasks = [u \in Users |-> NoTask]
    /\ user_settings = [u \in Users |-> Absent]
    /\ trade_params = [u \in Users |-> None]
    /\ active_trades = [u \in Users |-> <<>>]
    /\ trade_history = [u \in Users |-> <<>>]
    /\ bot_logs = [u \in Users |-> <<>>]
    /\ pnl_data = [u \in Users |-> None]
    /\ log_seq = [u \in Users |-> 0]
    /\ trade_seq = 0
    /\ tasks = <<>>
    /\ stop_calls = <<>>
    /\ calls = 0
    /\ steps = 0
    /\ start_outcome = [u \in Users |-> "none"]
    /\ stopped_since = [u \in Users |-> FALSE]


\* --------------------------------------------------------- task helpers
Alive(t) == tasks[t].pc # "done"
AliveTasks(u) == {t \in DOMAIN tasks : tasks[t].user = u /\ Alive(t)}

\* stops: how many stop_trading calls for u were issued before the task was created
\* legs: the buy, transfer and sell log kinds the task has emitted in its current cycle
\* delay: the seconds of the sleep that ends the iteration, 0 before it
NewTask(u, kind) ==
    [user |-> u, kind |-> kind, pc |-> "new", cancel |-> FALSE,
     params |-> None, opp |-> None, trade |-> None, legs |-> <<>>, delay |-> 0,
     stops |-> Cardinality({c \in DOMAIN stop_calls : stop_calls[c].user = u})]

\* Task.cancel(): no effect on a finished task
CancelTask(ts, t) ==
    IF ts[t].pc = "done" THEN ts ELSE [ts EXCEPT ![t].cancel = TRUE]

\* start_trading that initialises the PnL accumulator on every start
StartTradingAcceptedResetsPnl(u, settings, params) ==
    /\ stopped_since' = [stopped_since EXCEPT ![u] = FALSE]
    /\ user_settings' = [user_settings EXCEPT ![u] = settings]
    /\ trade_params' = [trade_params EXCEPT ![u] = params]
    /\ active_bots' = [active_bots EXCEPT ![u] = "True"]
    /\ pnl_data' = [pnl_data EXCEPT ![u] =
                      [total_pnl |-> 0, pnl_percent |-> 0, trades_count |-> 0,
                       start_time |-> log_seq[u]]]
    /\ Emit(u, << <<"success", "bot_started">> >>)
    /\ IF settings = "no_trade_type"
       THEN /\ start_outcome' = [start_outcome EXCEPT ![u] = "key_error"]
            /\ UNCHANGED <<tasks, bot_tasks>>
       ELSE /\ tasks' = Append(tasks, NewTask(u, settings))
            /\ bot_tasks' = [bot_tasks EXCEPT ![u] = Len(tasks) + 1]
            /\ start_outcome' = [start_outcome EXCEPT ![u] = "started"]
    /\ UNCHANGED <<active_trades, trade_history, trade_seq, stop_calls>>

\* -------------------------------------------------------- start_trading
\* the body of start_trading after the "already running" check
StartTradingAccepted(u, settings, params) ==
    /\ stopped_since' = [stopped_since EXCEPT ![u] = FALSE]
    /\ user_settings' = [user_settings EXCEPT ![u] = settings]
    /\ trade_params' = [trade_params EXCEPT ![u] = params]
    /\ active_bots' = [active_bots EXCEPT ![u] = "True"]
    /\ pnl_data' = IF pnl_data[u] = None
                   THEN [pnl_data EXCEPT ![u] =
                           [total_pnl |-> 0, pnl_percent |-> 0, trades_count |-> 0,
                            start_time |-> log_seq[u]]]
                   ELSE pnl_data
    /\ Emit(u, << <<"success", "bot_started">> >>)
    /\ IF settings = "no_trade_type"
       THEN \* KeyError at settings['trade_type'], re-raised
            /\ start_outcome' = [start_outcome EXCEPT ![u] = "key_error"]
            /\ UNCHANGED <<tasks, bot_tasks>>
       ELSE /\ tasks' = Append(tasks, NewTask(u, settings))
            /\ bot_tasks' = [bot_tasks EXCEPT ![u] = Len(tasks) + 1]
            /\ start_outcome' = [start_outcome EXCEPT ![u] = "started"]
    /\ UNCHANGED <<active_trades, trade_history, trade_seq, stop_calls>>

\* start_trading that creates the loop task without the start log entry
StartTradingSilent(u, settings, params) ==
    IF active_bots[u] = "True"
    THEN /\ start_outcome' = [start_outcome EXCEPT ![u] = "already_running"]
         /\ UNCHANGED <<active_bots, bot_tasks, user_settings, trade_params, active_trades,
                        trade_history, bot_logs, pnl_data, log_seq, trade_seq, tasks,
                        stop_calls, stopped_since>>
    ELSE /\ stopped_since' = [stopped_since EXCEPT ![u] = FALSE]
         /\ user_settings' = [user_settings EXCEPT ![u] = settings]
         /\ trade_params' = [trade_params EXCEPT ![u] = params]
         /\ active_bots' = [active_bots EXCEPT ![u] = "True"]
         /\ pnl_data' = IF pnl_data[u] = None
                        THEN [pnl_data EXCEPT ![u] =
                                [total_pnl |-> 0, pnl_percent |-> 0, trades_count |-> 0,
                                 start_time |-> log_seq[u]]]
                        ELSE pnl_data
         /\ IF settings = "no_trade_type"
            THEN /\ start_outcome' = [start_outcome EXCEPT ![u] = "key_error"]
                 /\ UNCHANGED <<tasks, bot_tasks>>
            ELSE /\ tasks' = Append(tasks, NewTask(u, settings))
                 /\ bot_tasks' = [bot_tasks EXCEPT ![u] = Len(tasks) + 1]
                 /\ start_outcome' = [start_outcome EXCEPT ![u] = "started"]
         /\ UNCHANGED <<active_trades, trade_history, trade_seq, stop_calls, bot_logs, log_seq>>

\* start_trading without its "already running" check
StartTradingNoGuard(u, settings, params) == StartTradingAccepted(u, settings, params)

StartTrading(u, settings, params) ==
    IF active_bots[u] = "True"
    THEN \* ValueError("Bot is already running"), re-raised
         /\ start_outcome' = [start_outcome EXCEPT ![u] = "already_running"]
         /\ UNCHANGED <<active_bots, bot_tasks, user_settings, trade_params, active_trades,
                        trade_history, bot_logs, pnl_data, log_seq, trade_seq, tasks,
                        stop_calls, stopped_since>>
    ELSE StartTradingAccepted(u, settings, params)

\* --------------------------------------------------------- stop_trading
\* first half: up to "await self.bot_tasks[user_id]"
StopTradingCall(u) ==
    LET t == bot_tasks[u]
        call(pc) == [user |-> u, pc |-> pc, task |-> t, was_running |-> active_bots[u] = "True"]
    IN
    IF active_bots[u] = Absent
    THEN /\ stop_calls' = Append(stop_calls, call("returned"))
         /\ UNCHANGED <<active_bots, bot_tasks, user_settings, trade_params, active_trades,
                        trade_history, bot_logs, pnl_data, log_seq, trade_seq, tasks, start_outcome,
                   stopped_since>>
    ELSE /\ active_bots' = [active_bots EXCEPT ![u] = "False"]
         /\ IF t = NoTask
            THEN /\ Emit(u, << <<"info", "bot_stopped">> >>)
                 /\ stop_calls' = Append(stop_calls, call("returned"))
                 /\ stopped_since' = [stopped_since EXCEPT ![u] = TRUE]
                 /\ UNCHANGED <<bot_tasks, tasks>>
            ELSE IF tasks[t].pc = "done"
            THEN \* cancel() is a no-op, the await does not suspend
                 /\ bot_tasks' = [bot_tasks EXCEPT ![u] = NoTask]
                 /\ Emit(u, << <<"info", "bot_stopped">> >>)
                 /\ stop_calls' = Append(stop_calls, call("returned"))
                 /\ stopped_since' = [stopped_since EXCEPT ![u] = TRUE]
                 /\ UNCHANGED tasks
            ELSE /\ tasks' = CancelTask(tasks, t)
                 /\ stop_calls' = Append(stop_calls, call("await"))
                 /\ UNCHANGED <<bot_tasks, bot_logs, log_seq, stopped_since>>
         /\ UNCHANGED <<user_settings, trade_params, active_trades, trade_history,
                        pnl_data, trade_seq, start_outcome>>

\* second half: the awaited task has finished
StopTradingResume(c) ==
    LET u == stop_calls[c].user IN
    /\ stop_calls[c].pc = "await"
    /\ tasks[stop_calls[c].task].pc = "done"
    /\ IF bot_tasks[u] = NoTask
       THEN \* del self.bot_tasks[user_id] raises KeyError, re-raised
            /\ stop_calls' = [stop_calls EXCEPT ![c].pc = "raised"]
            /\ UNCHANGED <<bot_tasks, bot_logs, log_seq, stopped_since>>
       ELSE /\ bot_tasks' = [bot_tasks EXCEPT ![u] = NoTask]
            /\ Emit(u, << <<"info", "bot_stopped">> >>)
            /\ stop_calls' = [stop_calls EXCEPT ![c].pc = "returned"]
            /\ stopped_since' = [stopped_since EXCEPT ![u] = TRUE]
    /\ UNCHANGED <<active_bots, user_settings, trade_params, active_trades, trade_history,
                   pnl_data, trade_seq, tasks, start_outcome>>

\* update_parameters on one parameter set shared by every user's session
UpdateParametersShared(u, params) ==
    /\ trade_params' = [x \in DOMAIN trade_params |-> params]
    /\ Emit(u, << <<"info", "params_updated">> >>)
    /\ UNCHANGED <<active_bots, bot_tasks, user_settings, active_trades, trade_history,
                   pnl_data, trade_seq, tasks, stop_calls, start_outcome, stopped_since>>

\* update_parameters writing the new values into the parameter set the
\* running iterations hold
UpdateParametersInPlace(u, params) ==
    /\ trade_params' = [trade_params EXCEPT ![u] = params]
    /\ tasks' = [t \in DOMAIN tasks |->
                   IF tasks[t].user = u /\ tasks[t].params # None
                   THEN [tasks[t] EXCEPT !.params = params] ELSE tasks[t]]
    /\ Emit(u, << <<"info", "params_updated">> >>)
    /\ UNCHANGED <<active_bots, bot_tasks, user_settings, active_trades, trade_history,
                   pnl_data, trade_seq, stop_calls, start_outcome, stopped_since>>

\* ---------------------------------------------------- update_parameters
UpdateParameters(u, params) ==
    /\ trade_params' = [trade_params EXCEPT ![u] = params]
    /\ Emit(u, << <<"info", "params_updated">> >>)
    /\ UNCHANGED <<active_bots, bot_tasks, user_settings, active_trades, trade_history,
                   pnl_data, trade_seq, tasks, stop_calls, start_outcome, stopped_since>>

\* ------------------------- ExchangeService.find_arbitrage_opportunities
\* prices: exchange id -> [bid, ask]; exchange_ids: list(prices.keys())
Opportunity(symbol, buy_exchange, sell_exchange, prices) ==
    LET buy_price == prices[buy_exchange].ask
        sell_price == prices[sell_exchange].bid
    IN  [coin |-> symbol, buy_exchange |-> buy_exchange, sell_exchange |-> sell_exchange,
         buy_price |-> buy_price, sell_price |-> sell_price]

\* a finder without the threshold test: every direction qualifies
SpreadAny(opp, min_profit) == TRUE

\* spread > min_profit, spread = (sell - buy) / buy * 100, min_profit in 1/100 %
SpreadAbove(opp, min_profit) ==
    (opp.sell_price - opp.buy_price) * 10000 > min_profit * opp.buy_price

\* spread of a is strictly larger than spread of b (buy prices are positive)
SpreadGreater(a, b) ==
    (a.sell_price - a.buy_price) * b.buy_price > (b.sell_price - b.buy_price) * a.buy_price

\* candidates in the order the nested loops append them
RECURSIVE PairCandidates(_, _, _, _, _, _)
PairCandidates(symbol, exchange_ids, prices, min_profit, i, j) ==
    IF i > Len(exchange_ids) THEN <<>>
    ELSE IF j > Len(exchange_ids)
    THEN PairCandidates(symbol, exchange_ids, prices, min_profit, i + 1, i + 2)
    ELSE LET fwd == Opportunity(symbol, exchange_ids[i], exchange_ids[j], prices)
             rev == Opportunity(symbol, exchange_ids[j], exchange_ids[i], prices)
         IN  (IF SpreadAbove(fwd, min_profit) THEN <<fwd>> ELSE <<>>)
             \o (IF SpreadAbove(rev, min_profit) THEN <<rev>> ELSE <<>>)
             \o PairCandidates(symbol, exchange_ids, prices, min_profit, i, j + 1)

\* sorted(opportunities, key=spread_percent, reverse=True): stable
RECURSIVE InsertBySpread(_, _)
InsertBySpread(sorted, opp) ==
    IF sorted = <<>> THEN <<opp>>
    ELSE IF SpreadGreater(opp, Head(sorted)) THEN <<opp>> \o sorted
    ELSE <<Head(sorted)>> \o InsertBySpread(Tail(sorted), opp)

RECURSIVE SortBySpread(_, _)
SortBySpread(sorted, rest) ==
    IF rest = <<>> THEN sorted
    ELSE SortBySpread(InsertBySpread(sorted, Head(rest)), Tail(rest))

find_arbitrage_opportunities(symbol, min_profit, exchange_ids, prices) ==
    IF Len(exchange_ids) < 2 THEN <<>>
    ELSE SortBySpread(<<>>, PairCandidates(symbol, exchange_ids, prices, min_profit, 1, 2))

\* ticker tables the connected exchanges can answer with
TickerTables == [{UserExchanges[i] : i \in DOMAIN UserExchanges} -> [bid : PriceLevels, ask : PriceLevels]]

\* frequency_delays.get(params.get('frequency', 'medium'), default) of the two loops
frequency_delay(kind, frequency) ==
    IF kind = "arbitrage"
    THEN CASE frequency = "low" -> 30 [] frequency = "medium" -> 15
           [] frequency = "high" -> 5 [] OTHER -> 15
    ELSE CASE frequency = "low" -> 60 [] frequency = "medium" -> 30
           [] frequency = "high" -> 10 [] OTHER -> 30

\* the sleep(10) of the loop's exception handler
ErrorDelay == 10

\* --------------------------------------------------- loop tasks, one step
\* the code from the top of the while loop to the next suspension point;
\* pre are the entries the step emitted before it reached the loop head
BeginIteration(t, pre) ==
    LET u == tasks[t].user IN
    IF active_bots[u] # "True"
    THEN /\ Emit(u, pre)
         /\ tasks' = [tasks EXCEPT ![t].pc = "done"]
    ELSE IF tasks[t].kind = "arbitrage"
         THEN \* the user's exchanges are connected: find_arbitrage_opportunities
              \* suspends in fetch_ticker
              /\ Emit(u, pre \o << <<"search", "analysing">> >>)
              /\ tasks' = [tasks EXCEPT ![t].pc = "fetch", ![t].params = trade_params[u],
                                        ![t].delay = 0]
         ELSE /\ Emit(u, pre \o << <<"search", "charts">> >>)
              /\ tasks' = [tasks EXCEPT ![t].pc = "entry_sleep", ![t].params = trade_params[u],
                                        ![t].delay = 0]

\* a cancelled task that closes the user's open trades as it ends
TaskCancelledClosesTrades(t) ==
    /\ Alive(t)
    /\ tasks[t].cancel
    /\ tasks' = [tasks EXCEPT ![t].pc = "done"]
    /\ active_trades' = [active_trades EXCEPT ![tasks[t].user] = <<>>]
    /\ UNCHANGED <<active_bots, bot_tasks, user_settings, trade_params,
                   trade_history, bot_logs, pnl_data, log_seq, trade_seq, stop_calls,
                   start_outcome, stopped_since>>

\* a cancelled task gets CancelledError at its suspension point and ends
TaskCancelled(t) ==
    /\ Alive(t)
    /\ tasks[t].cancel
    /\ tasks' = [tasks EXCEPT ![t].pc = "done"]
    /\ UNCHANGED <<active_bots, bot_tasks, user_settings, trade_params, active_trades,
                   trade_history, bot_logs, pnl_data, log_seq, trade_seq, stop_calls,
                   start_outcome, stopped_since>>

\* first step of a loop task, and the wake-up from the sleep that ends a cycle
LoopHead(t) ==
    /\ ~tasks[t].cancel
    /\ tasks[t].pc \in {"new", "cycle_sleep", "error_sleep"}
    /\ IF tasks[t].pc = "new"
       THEN BeginIteration(t, << <<"search", "loop_started">> >>)
       ELSE BeginIteration(t, <<>>)
    /\ UNCHANGED <<active_bots, bot_tasks, user_settings, trade_params, active_trades,
                   trade_history, pnl_data, trade_seq, stop_calls, start_outcome,
                   stopped_since>>

\* the leg logs among the entries of one step, in emission order
LegKinds(entries) ==
    LET legs == SelectSeq(entries, LAMBDA e : e[1] \in {"buy", "transfer", "sell"})
    IN  [k \in DOMAIN legs |-> legs[k][1]]

\* a completion that leaves the record in the active set
RemoveTradeKeeps(trades, id) == trades

RemoveTrade(trades, id) ==
    LET idx == {i \in DOMAIN trades : trades[i].id = id}
        first == CHOOSE i \in idx : \A k \in idx : i <= k
    IN  IF idx = {} THEN trades
        ELSE SubSeq(trades, 1, first - 1) \o SubSeq(trades, first + 1, Len(trades))

\* find_arbitrage_opportunities has answered (or raised)
ArbitrageFetched(t) ==
    LET u == tasks[t].user
        params == tasks[t].params
    IN
    /\ ~tasks[t].cancel
    /\ tasks[t].pc = "fetch"
    /\ \/ \E prices \in TickerTables :
            LET opportunities == find_arbitrage_opportunities(params.coin,
                                     params.min_profit_threshold, UserExchanges, prices)
                best_opp == opportunities[1]
                active_trade == [id |-> trade_seq + 1, user_id |-> u, coin |-> best_opp.coin,
                                 entry_price |-> best_opp.buy_price,
                                 order_size |-> params.order_size,
                                 pnl |-> 0, status |-> "active",
                                 exchanges |-> <<best_opp.buy_exchange, best_opp.sell_exchange>>,
                                 opened_at |-> log_seq[u] + 1]
            IN  IF opportunities # <<>>
                THEN /\ Emit(u, << <<"success", "found">>, <<"buy", "buying">> >>)
                     /\ active_trades' = [active_trades EXCEPT ![u] = Append(@, active_trade)]
                     /\ trade_seq' = trade_seq + 1
                     /\ tasks' = [tasks EXCEPT ![t].pc = "buy_sleep", ![t].opp = best_opp,
                                               ![t].trade = active_trade,
                                               ![t].legs = LegKinds(<< <<"success", "found">>,
                                                                       <<"buy", "buying">> >>)]
                ELSE /\ Emit(u, << <<"search", "spread_low">> >>)
                     /\ tasks' = [tasks EXCEPT ![t].pc = "cycle_sleep",
                            ![t].delay = frequency_delay("arbitrage", params.frequency)]
                     /\ UNCHANGED <<active_trades, trade_seq>>
       \/ \* the collaborator raised: except Exception of the loop
          /\ Emit(u, << <<"error", "loop_error">> >>)
          /\ tasks' = [tasks EXCEPT ![t].pc = "error_sleep", ![t].delay = ErrorDelay]
          /\ UNCHANGED <<active_trades, trade_seq>>
    /\ UNCHANGED <<active_bots, bot_tasks, user_settings, trade_params, trade_history,
                   pnl_data, stop_calls, start_outcome, stopped_since>>

\* _execute_arbitrage with the transfer log left out
ArbitrageLegNoTransfer(t) ==
    LET u == tasks[t].user IN
    /\ ~tasks[t].cancel
    /\ tasks[t].pc \in {"buy_sleep", "transfer_sleep"}
    /\ Emit(u, << <<"sell", "selling">> >>)
    /\ tasks' = [tasks EXCEPT ![t].pc = "sell_sleep",
                              ![t].legs = @ \o LegKinds(<< <<"sell", "selling">> >>)]
    /\ UNCHANGED <<active_bots, bot_tasks, user_settings, trade_params, active_trades,
                   trade_history, pnl_data, trade_seq, stop_calls, start_outcome,
                   stopped_since>>

\* _execute_arbitrage after the simulated buy (sleep 2) and transfer (sleep 3)
ArbitrageLeg(t) ==
    LET u == tasks[t].user IN
    /\ ~tasks[t].cancel
    /\ tasks[t].pc \in {"buy_sleep", "transfer_sleep"}
    /\ IF tasks[t].pc = "buy_sleep"
       THEN /\ Emit(u, << <<"transfer", "transferring">> >>)
            /\ tasks' = [tasks EXCEPT ![t].pc = "transfer_sleep",
                                      ![t].legs = @ \o LegKinds(<< <<"transfer", "transferring">> >>)]
       ELSE /\ Emit(u, << <<"sell", "selling">> >>)
            /\ tasks' = [tasks EXCEPT ![t].pc = "sell_sleep",
                                      ![t].legs = @ \o LegKinds(<< <<"sell", "selling">> >>)]
    /\ UNCHANGED <<active_bots, bot_tasks, user_settings, trade_params, active_trades,
                   trade_history, pnl_data, trade_seq, stop_calls, start_outcome,
                   stopped_since>>

\* an accumulator that adds the profit without counting the trade
AddToPnlNoCount(pnl, profit_usd) == [pnl EXCEPT !.total_pnl = @ + profit_usd]

\* total_pnl += profit_usd; trades_count += 1
AddToPnl(pnl, profit_usd) ==
    [pnl EXCEPT !.total_pnl = @ + profit_usd, !.trades_count = @ + 1]

\* _execute_arbitrage after the simulated sell (sleep 2): the trade completes
ArbitrageComplete(t) ==
    LET u == tasks[t].user
        opp == tasks[t].opp
        active_trade == tasks[t].trade
        \* (sell_price - buy_price) * amount, amount = order_size / buy_price
        profit_usd == ((opp.sell_price - opp.buy_price) * active_trade.order_size) \div opp.buy_price
        \* {**active_trade, 'exit_price': ..., 'pnl': ..., 'status': 'completed'}
        completed_trade == [exit_price |-> opp.sell_price]
                           @@ [active_trade EXCEPT !.pnl = profit_usd, !.status = "completed"]
    IN
    /\ ~tasks[t].cancel
    /\ tasks[t].pc = "sell_sleep"
    /\ pnl_data' = [pnl_data EXCEPT ![u] = AddToPnl(@, profit_usd)]
    /\ active_trades' = [active_trades EXCEPT ![u] = RemoveTrade(@, active_trade.id)]
    /\ trade_history' = [trade_history EXCEPT ![u] = Append(@, completed_trade)]
    /\ Emit(u, << <<"profit", "trade_done">> >>)
    /\ tasks' = [tasks EXCEPT ![t].pc = "cycle_sleep", ![t].opp = None, ![t].trade = None,
                              ![t].legs = <<>>,
                              ![t].delay = frequency_delay("arbitrage", tasks[t].params.frequency)]
    /\ UNCHANGED <<active_bots, bot_tasks, user_settings, trade_params, trade_seq,
                   stop_calls, start_outcome, stopped_since>>

\* _execute_arbitrage when the order or transfer a leg's await stands for
\* raises: the buy handler logs and removes the record, the sell handler and
\* the handler of the whole cycle only log; the loop then sleeps its delay
ArbitrageLegFailed(t) ==
    LET u == tasks[t].user
        active_trade == tasks[t].trade
    IN
    /\ ~tasks[t].cancel
    /\ tasks[t].pc \in {"buy_sleep", "transfer_sleep", "sell_sleep"}
    /\ IF tasks[t].pc = "buy_sleep"
       THEN /\ Emit(u, << <<"error", "buy_error">> >>)
            /\ active_trades' = [active_trades EXCEPT ![u] = RemoveTrade(@, active_trade.id)]
       ELSE IF tasks[t].pc = "sell_sleep"
       THEN /\ Emit(u, << <<"error", "sell_error">> >>)
            /\ UNCHANGED active_trades
       ELSE /\ Emit(u, << <<"error", "trade_error">> >>)
            /\ UNCHANGED active_trades
    /\ tasks' = [tasks EXCEPT ![t].pc = "cycle_sleep", ![t].opp = None, ![t].trade = None,
                              ![t].legs = <<>>,
                              ![t].delay = frequency_delay("arbitrage", tasks[t].params.frequency)]
    /\ UNCHANGED <<active_bots, bot_tasks, user_settings, trade_params, trade_history,
                   pnl_data, trade_seq, stop_calls, start_outcome, stopped_since>>

\* _margin_trading_loop after its sleep(10): the random entry signal
MarginEntry(t) ==
    LET u == tasks[t].user IN
    /\ ~tasks[t].cancel
    /\ tasks[t].pc = "entry_sleep"
    /\ \E found \in BOOLEAN :
         Emit(u, IF found THEN << <<"success", "entry_found">> >>
                          ELSE << <<"search", "waiting">> >>)
    /\ tasks' = [tasks EXCEPT ![t].pc = "cycle_sleep",
                              ![t].delay = frequency_delay("margin", tasks[t].params.frequency)]
    /\ UNCHANGED <<active_bots, bot_tasks, user_settings, trade_params, active_trades,
                   trade_history, pnl_data, trade_seq, stop_calls, start_outcome,
                   stopped_since>>

\* _margin_trading_loop when its iteration raises: the handler writes to the
\* process log only and sleeps 10 seconds
MarginIterationFailed(t) ==
    /\ ~tasks[t].cancel
    /\ tasks[t].pc = "entry_sleep"
    /\ tasks' = [tasks EXCEPT ![t].pc = "error_sleep", ![t].delay = ErrorDelay]
    /\ UNCHANGED <<active_bots, bot_tasks, user_settings, trade_params, active_trades,
                   trade_history, bot_logs, pnl_data, log_seq, trade_seq, stop_calls,
                   start_outcome, stopped_since>>

\* ------------------------------------------------- the engine's readers
Min(a, b) == IF a < b THEN a ELSE b

\* history[:limit]
get_trade_history(u, limit) == SubSeq(trade_history[u], 1, Min(limit, Len(trade_history[u])))

\* get_status: every field read with .get and a default
get_status(u) ==
    [is_running |-> active_bots[u] = "True",
     active_trades_count |-> Len(active_trades[u]),
     total_trades |-> IF pnl_data[u] = None THEN 0 ELSE pnl_data[u].trades_count,
     total_pnl |-> IF pnl_data[u] = None THEN 0 ELSE pnl_data[u].total_pnl,
     pnl_percent |-> IF pnl_data[u] = None THEN 0 ELSE pnl_data[u].pnl_percent]

\* sum(t.get('pnl', 0) for t in history)
RECURSIVE PnlSum(_)
PnlSum(history) ==
    IF history = <<>> THEN 0 ELSE Head(history).pnl + PnlSum(Tail(history))

\* get_statistics, the counts and the total it derives from the history
get_statistics(u) ==
    LET history == trade_history[u] IN
    [total_trades |-> Len(history),
     successful_trades |-> Cardinality({i \in DOMAIN history : history[i].pnl > 0}),
     failed_trades |-> Cardinality({i \in DOMAIN history : history[i].pnl < 0}),
     total_pnl |-> PnlSum(history)]

\* a live snapshot that hands out the whole log buffer
get_live_updates_all_logs(u) ==
    [pnl |-> IF pnl_data[u] = None THEN 0 ELSE pnl_data[u].total_pnl,
     pnl_percent |-> IF pnl_data[u] = None THEN 0 ELSE pnl_data[u].pnl_percent,
     active_trades |-> active_trades[u],
     latest_logs |-> bot_logs[u],
     is_running |-> active_bots[u] = "True"]

\* the 'data' of get_live_updates: every field read with .get and a default
get_live_updates(u) ==
    [pnl |-> IF pnl_data[u] = None THEN 0 ELSE pnl_data[u].total_pnl,
     pnl_percent |-> IF pnl_data[u] = None THEN 0 ELSE pnl_data[u].pnl_percent,
     active_trades |-> active_trades[u],
     latest_logs |-> SubSeq(bot_logs[u], 1, Min(10, Len(bot_logs[u]))),
     is_running |-> active_bots[u] = "True"]

\* ===================================================== ArbitrageScanner
\* Numbers: prices, volumes and order sizes are whole USDT, fee rates are
\* hundredths of a percent, withdrawal fees are 1e-5 coin.  A value the code computes in floating point is kept as an exact
\* fraction [num, den]; round(x, k) becomes an integer count of 10^-k.

\* utils/exchange_config.py SUPPORTED_EXCHANGES, the entries the model quotes
ExchangeIds == {"binance", "gateio", "kraken", "unlisted"}

SUPPORTED_EXCHANGES ==
    [binance |-> [taker |-> 10, withdrawal_fees |-> [BTC |-> 50, ETH |-> 500],
                  deposit_time |-> 60, withdrawal_time |-> 300],
     gateio  |-> [taker |-> 20, withdrawal_fees |-> [BTC |-> 100, ETH |-> 1000],
                  deposit_time |-> 70, withdrawal_time |-> 350],
     kraken  |-> [taker |-> 26, withdrawal_fees |-> [BTC |-> 15, ETH |-> 350],
                  deposit_time |-> 90, withdrawal_time |-> 400]]

get_exchange_config(exchange_id) ==
    IF exchange_id \in DOMAIN SUPPORTED_EXCHANGES THEN SUPPORTED_EXCHANGES[exchange_id] ELSE None

\* config['withdrawal_fees'].get(coin, 0)
WithdrawalFee(config, coin) ==
    IF coin \in DOMAIN config.withdrawal_fees THEN config.withdrawal_fees[coin] ELSE 0

\* fees and order sizes are in USDT; fee amounts are counted in 1/FeeDen USDT
FeeDen == 100000
NetworkFee == FeeDen \div 2     \* network_fee = 0.5

Frac(n, d) == [num |-> n, den |-> d]
Norm(r) == IF r.den < 0 THEN Frac(-r.num, -r.den) ELSE r
FracNegative(r) == Norm(r).num < 0
FracPositive(r) == Norm(r).num > 0

\* long division of r / d to k more decimal digits after the quotient q,
\* the last digit rounded to nearest, a tie to the even one
RECURSIVE RoundDigits(_, _, _, _)
RoundDigits(q, r, d, k) ==
    IF k = 0
    THEN IF 2 * r < d THEN q
         ELSE IF 2 * r > d THEN q + 1
         ELSE IF q % 2 = 0 THEN q ELSE q + 1
    ELSE RoundDigits(q * 10 + ((r * 10) \div d), (r * 10) % d, d, k - 1)

\* round(x, k) of the fraction x, in units of 10^-k
Round(x, k) == RoundDigits(Norm(x).num \div Norm(x).den, Norm(x).num % Norm(x).den, Norm(x).den, k)

_calculate_fees(buy_exchange, sell_exchange, coin, order_size, price) ==
    LET buy_config == get_exchange_config(buy_exchange)
        sell_config == get_exchange_config(sell_exchange)
    IN  IF buy_config = None \/ sell_config = None
        THEN [total_fees |-> 0]
        ELSE LET \* taker is in hundredths of a percent
                 buy_fee == order_size * buy_config.taker * (FeeDen \div 10000)
                 sell_fee == order_size * sell_config.taker * (FeeDen \div 10000)
                 \* withdrawal fees are in 1/FeeDen coin
                 withdrawal_fee_usdt == WithdrawalFee(buy_config, coin) * price
                 network_fee == NetworkFee
             IN  [buy_fee |-> buy_fee, sell_fee |-> sell_fee,
                  withdrawal_fee |-> withdrawal_fee_usdt, network_fee |-> network_fee,
                  total_fees |-> buy_fee + sell_fee + withdrawal_fee_usdt + network_fee]

\* order_size # 0 here: the caller models the ZeroDivisionError of order_size = 0
_calculate_net_profit(order_size, buy_price, sell_price, fees) ==
    LET den == FeeDen * buy_price
        gross_profit == (sell_price - buy_price) * order_size * FeeDen
        net_profit == gross_profit - fees.total_fees * buy_price
    IN  [gross_profit |-> Frac(gross_profit, den),
         net_profit |-> Frac(net_profit, den),
         profit_percent |-> Frac(net_profit, (den \div 100) * order_size),
         is_profitable |-> net_profit > 0]

_estimate_execution_time(buy_exchange, sell_exchange) ==
    LET buy_config == get_exchange_config(buy_exchange)
        sell_config == get_exchange_config(sell_exchange)
    IN  IF buy_config = None \/ sell_config = None THEN 600
        ELSE 5 + buy_config.withdrawal_time + sell_config.deposit_time + 5

_quick_network_check(coin) == coin \in {"BTC", "ETH", "USDT", "BNB", "SOL"}

\* the pair loops visiting every pair in one direction only
RECURSIVE DirectionsOneWay(_, _, _)
DirectionsOneWay(exchange_list, i, j) ==
    IF i > Len(exchange_list) THEN <<>>
    ELSE IF j > Len(exchange_list) THEN DirectionsOneWay(exchange_list, i + 1, i + 2)
    ELSE << <<exchange_list[i], exchange_list[j]>> >> \o DirectionsOneWay(exchange_list, i, j + 1)

\* the (buy, sell) directions of one coin in the order the loops of
\* _find_opportunities visit them: for i, for j > i, (i, j) then (j, i)
RECURSIVE Directions(_, _, _)
Directions(exchange_list, i, j) ==
    IF i > Len(exchange_list) THEN <<>>
    ELSE IF j > Len(exchange_list) THEN Directions(exchange_list, i + 1, i + 2)
    ELSE << <<exchange_list[i], exchange_list[j]>>, <<exchange_list[j], exchange_list[i]>> >>
         \o Directions(exchange_list, i, j + 1)

\* a price matrix is a sequence of [coin, exchange_list, quotes]: the coins in
\* dict order, each with its quoted exchanges in dict order
CoinDirections(entry) ==
    IF Len(entry.exchange_list) < 2 THEN <<>> ELSE Directions(entry.exchange_list, 1, 2)

\* every direction whose prices the scan reads, as <<coin, buy_ex, sell_ex>>
RECURSIVE Evaluations(_)
Evaluations(prices) ==
    IF prices = <<>> THEN <<>>
    ELSE LET dirs == CoinDirections(Head(prices))
         IN  [k \in 1..Len(dirs) |-> <<Head(prices).coin, dirs[k][1], dirs[k][2]>>]
             \o Evaluations(Tail(prices))

PassesPrices(entry, dir) ==
    entry.quotes[dir[1]].ask > 0 /\ entry.quotes[dir[2]].bid > 0

\* not (spread_percent < min_spread); min_spread in hundredths of a percent
PassesSpread(entry, dir, min_spread) ==
    LET buy_price == entry.quotes[dir[1]].ask
        sell_price == entry.quotes[dir[2]].bid
    IN  (sell_price - buy_price) * 10000 >= min_spread * buy_price

\* the loop body without the "profit_percent < 0" filter
CandidateNoProfitFilter(entry, dir, min_spread, order_size, check_network) ==
    LET coin == entry.coin
        buy_price == entry.quotes[dir[1]].ask
        sell_price == entry.quotes[dir[2]].bid
        fees == _calculate_fees(dir[1], dir[2], coin, order_size, buy_price)
        net_profit == _calculate_net_profit(order_size, buy_price, sell_price, fees)
    IN  IF ~PassesPrices(entry, dir) THEN <<>>
        ELSE IF ~PassesSpread(entry, dir, min_spread) THEN <<>>
        ELSE IF check_network /\ ~_quick_network_check(coin) THEN <<>>
        ELSE << [coin |-> coin, buy_exchange |-> dir[1], sell_exchange |-> dir[2],
                 buy_price |-> buy_price, sell_price |-> sell_price,
                 raw_spread_percent |-> Round(Frac((sell_price - buy_price) * 100, buy_price), 3),
                 net_profit_percent |-> Round(net_profit.profit_percent, 3),
                 net_profit_usdt |-> Round(net_profit.net_profit, 2),
                 total_fees |-> Round(Frac(fees.total_fees, FeeDen), 2),
                 execution_time_seconds |-> _estimate_execution_time(dir[1], dir[2]),
                 volume_buy |-> entry.quotes[dir[1]].volume,
                 volume_sell |-> entry.quotes[dir[2]].volume,
                 status |-> "active"] >>

\* the body of the innermost loop for one direction: <<>> or one opportunity
Candidate(entry, dir, min_spread, order_size, check_network) ==
    LET coin == entry.coin
        buy_ex == dir[1]
        sell_ex == dir[2]
        buy_price == entry.quotes[buy_ex].ask
        sell_price == entry.quotes[sell_ex].bid
        fees == _calculate_fees(buy_ex, sell_ex, coin, order_size, buy_price)
        net_profit == _calculate_net_profit(order_size, buy_price, sell_price, fees)
    IN  IF ~PassesPrices(entry, dir) THEN <<>>
        ELSE IF ~PassesSpread(entry, dir, min_spread) THEN <<>>
        ELSE IF FracNegative(net_profit.profit_percent) THEN <<>>
        ELSE IF check_network /\ ~_quick_network_check(coin) THEN <<>>
        ELSE << [coin |-> coin, buy_exchange |-> buy_ex, sell_exchange |-> sell_ex,
                 buy_price |-> buy_price, sell_price |-> sell_price,
                 raw_spread_percent |-> Round(Frac((sell_price - buy_price) * 100, buy_price), 3),
                 net_profit_percent |-> Round(net_profit.profit_percent, 3),
                 net_profit_usdt |-> Round(net_profit.net_profit, 2),
                 total_fees |-> Round(Frac(fees.total_fees, FeeDen), 2),
                 execution_time_seconds |-> _estimate_execution_time(buy_ex, sell_ex),
                 volume_buy |-> entry.quotes[buy_ex].volume,
                 volume_sell |-> entry.quotes[sell_ex].volume,
                 status |-> "active"] >>

RECURSIVE CoinOpportunities(_, _, _, _, _)
CoinOpportunities(entry, dirs, min_spread, order_size, check_network) ==
    IF dirs = <<>> THEN <<>>
    ELSE Candidate(entry, Head(dirs), min_spread, order_size, check_network)
         \o CoinOpportunities(entry, Tail(dirs), min_spread, order_size, check_network)

RECURSIVE _find_opportunities(_, _, _, _)
_find_opportunities(prices, min_spread, order_size, check_network) ==
    IF prices = <<>> THEN <<>>
    ELSE CoinOpportunities(Head(prices), CoinDirections(Head(prices)),
                           min_spread, order_size, check_network)
         \o _find_opportunities(Tail(prices), min_spread, order_size, check_network)

\* net_profit / order_size with order_size = 0 raises ZeroDivisionError as soon
\* as one direction gets past the price and spread filters
FindRaises(prices, min_spread, order_size) ==
    /\ order_size = 0
    /\ \E c \in DOMAIN prices :
         LET dirs == CoinDirections(prices[c])
         IN  \E k \in DOMAIN dirs : /\ PassesPrices(prices[c], dirs[k])
                                    /\ PassesSpread(prices[c], dirs[k], min_spread)

\* the directions the scan has read when it returns or raises: all of them,
\* or those up to the one whose profit computation raised
RECURSIVE EvaluatedPrefix(_, _, _, _)
EvaluatedPrefix(prices, c, k, min_spread) ==
    IF c > Len(prices) THEN <<>>
    ELSE LET dirs == CoinDirections(prices[c])
         IN  IF k > Len(dirs) THEN EvaluatedPrefix(prices, c + 1, 1, min_spread)
             ELSE << <<prices[c].coin, dirs[k][1], dirs[k][2]>> >>
                  \o (IF PassesPrices(prices[c], dirs[k]) /\ PassesSpread(prices[c], dirs[k], min_spread)
                      THEN <<>>
                      ELSE EvaluatedPrefix(prices, c, k + 1, min_spread))

Evaluated(prices, min_spread, order_size) ==
    IF FindRaises(prices, min_spread, order_size)
    THEN EvaluatedPrefix(prices, 1, 1, min_spread)
    ELSE Evaluations(prices)

\* list(dict.fromkeys(seq)): the first occurrence of every element
RECURSIVE Dedupe(_)
Dedupe(seq) ==
    IF seq = <<>> THEN <<>>
    ELSE LET rest == Dedupe(SubSeq(seq, 1, Len(seq) - 1))
             last == seq[Len(seq)]
         IN  IF \E k \in DOMAIN rest : rest[k] = last THEN rest ELSE Append(rest, last)

Range(seq) == {seq[k] : k \in DOMAIN seq}

\* a price matrix that drops a coin as soon as one of its fetches failed
RECURSIVE FetchEntriesAllOrNothing(_, _, _)
FetchEntriesAllOrNothing(coins, exchanges, fetched) ==
    IF coins = <<>> THEN <<>>
    ELSE LET coin == Head(coins)
             quoted == SelectSeq(exchanges, LAMBDA e : fetched[<<coin, e>>] # None)
         IN  (IF quoted # exchanges THEN <<>>
              ELSE << [coin |-> coin, exchange_list |-> quoted,
                       quotes |-> [e \in Range(quoted) |-> fetched[<<coin, e>>]]] >>)
             \o FetchEntriesAllOrNothing(Tail(coins), exchanges, fetched)

\* _fetch_all_prices: fetched[<<coin, exchange>>] is the ticker of that pair or
\* None when its fetch failed; a coin gets a dict entry with its first ticker
RECURSIVE FetchEntries(_, _, _)
FetchEntries(coins, exchanges, fetched) ==
    IF coins = <<>> THEN <<>>
    ELSE LET coin == Head(coins)
             quoted == SelectSeq(exchanges, LAMBDA e : fetched[<<coin, e>>] # None)
         IN  (IF quoted = <<>> THEN <<>>
              ELSE << [coin |-> coin, exchange_list |-> quoted,
                       quotes |-> [e \in Range(quoted) |-> fetched[<<coin, e>>]]] >>)
             \o FetchEntries(Tail(coins), exchanges, fetched)

_fetch_all_prices(coins, exchanges, fetched) ==
    FetchEntries(Dedupe(coins), Dedupe(exchanges), fetched)

\* ---------------------------------------------------------- manual_scan
\* the value manual_scan returns
manual_scan(coins, exchanges, min_spread, order_size, fetched) ==
    LET prices == _fetch_all_prices(coins, exchanges, fetched)
    IN  IF prices = <<>> THEN <<>>
        ELSE IF FindRaises(prices, min_spread, order_size) THEN <<>>
        ELSE _find_opportunities(prices, min_spread, order_size, TRUE)

\* ---------------------------- ProfitCalculator._calculate_single_trade
\* prices and order_size in USDT; amounts of the result in cents, percentages
\* in thousandths of a percent (roi in hundredths), as the code rounds them
SlippagePercent == 10      \* slippage_percent = 0.1, in hundredths of a percent

\* a fee sum that leaves the slippage cost out
SingleTradeFeesNoSlippage(coin, buy_exchange, sell_exchange, buy_price, order_size) ==
    LET buy_config == get_exchange_config(buy_exchange)
        sell_config == get_exchange_config(sell_exchange)
    IN  order_size * buy_config.taker * (FeeDen \div 10000)
          + order_size * sell_config.taker * (FeeDen \div 10000)
          + WithdrawalFee(buy_config, coin) * buy_price + NetworkFee

\* total_fees of the calculator, in 1/FeeDen USDT
SingleTradeFees(coin, buy_exchange, sell_exchange, buy_price, order_size) ==
    LET buy_config == get_exchange_config(buy_exchange)
        sell_config == get_exchange_config(sell_exchange)
    IN  order_size * buy_config.taker * (FeeDen \div 10000)
          + order_size * sell_config.taker * (FeeDen \div 10000)
          + WithdrawalFee(buy_config, coin) * buy_price + NetworkFee
          + order_size * SlippagePercent * (FeeDen \div 10000)

\* a missing exchange config raises TypeError, order_size = 0 and
\* buy_price = 0 raise ZeroDivisionError
_calculate_single_trade(coin, buy_exchange, sell_exchange, buy_price, sell_price, order_size) ==
    LET buy_config == get_exchange_config(buy_exchange)
        sell_config == get_exchange_config(sell_exchange)
        unit == FeeDen \div 10000
        buy_fee == order_size * buy_config.taker * unit
        sell_fee == order_size * sell_config.taker * unit
        withdrawal_fee_usdt == WithdrawalFee(buy_config, coin) * buy_price
        slippage_cost == order_size * SlippagePercent * unit
        total_fees == SingleTradeFees(coin, buy_exchange, sell_exchange, buy_price, order_size)
        den == FeeDen * buy_price
        gross_profit == (sell_price - buy_price) * order_size * FeeDen
        net_profit == gross_profit - total_fees * buy_price
        net_profit_percent == Frac(net_profit, (den \div 100) * order_size)
    IN  IF buy_config = None \/ sell_config = None \/ order_size = 0 \/ buy_price = 0
        THEN [raised |-> TRUE]
        ELSE [raised |-> FALSE,
              order_size |-> order_size, buy_price |-> buy_price, sell_price |-> sell_price,
              spread_percent |-> Round(Frac((sell_price - buy_price) * 100, buy_price), 3),
              fees |-> [buy_trading_fee |-> Round(Frac(buy_fee, FeeDen), 2),
                        sell_trading_fee |-> Round(Frac(sell_fee, FeeDen), 2),
                        withdrawal_fee |-> Round(Frac(withdrawal_fee_usdt, FeeDen), 2),
                        network_fee |-> Round(Frac(NetworkFee, FeeDen), 2),
                        slippage |-> Round(Frac(slippage_cost, FeeDen), 2),
                        total_fees |-> Round(Frac(total_fees, FeeDen), 2),
                        total_fees_percent |-> Round(Frac(total_fees, order_size * (FeeDen \div 100)), 3)],
              profit |-> [gross_profit |-> Round(Frac(gross_profit, den), 2),
                          gross_profit_percent |-> Round(Frac((sell_price - buy_price) * 100, buy_price), 3),
                          net_profit |-> Round(Frac(net_profit, den), 2),
                          net_profit_percent |-> Round(net_profit_percent, 3),
                          roi |-> Round(net_profit_percent, 2)],
              execution_seconds |-> 5 + buy_config.withdrawal_time + sell_config.deposit_time + 5,
              is_profitable |-> FracPositive(Frac(net_profit, den))]

\* ------------------------------ ArbitrageAnalyzer fees and net profit
\* the fees dict of the analyzer: every amount already rounded to cents
_calculate_all_fees(exchange_from, exchange_to, coin, order_size_usdt, buy_price) ==
    LET config_from == get_exchange_config(exchange_from)
        config_to == get_exchange_config(exchange_to)
        unit == FeeDen \div 10000
        buy_fee == order_size_usdt * config_from.taker * unit
        sell_fee == order_size_usdt * config_to.taker * unit
        withdrawal_fee_usdt == WithdrawalFee(config_from, coin) * buy_price
        total_fees == buy_fee + sell_fee + withdrawal_fee_usdt + NetworkFee
    IN  [buy_fee |-> Round(Frac(buy_fee, FeeDen), 2),
         buy_fee_percent |-> config_from.taker,
         sell_fee |-> Round(Frac(sell_fee, FeeDen), 2),
         sell_fee_percent |-> config_to.taker,
         withdrawal_fee |-> Round(Frac(withdrawal_fee_usdt, FeeDen), 2),
         withdrawal_fee_crypto |-> WithdrawalFee(config_from, coin),
         network_fee |-> Round(Frac(NetworkFee, FeeDen), 2),
         total_fees |-> Round(Frac(total_fees, FeeDen), 2),
         total_fees_percent |-> Round(Frac(total_fees, order_size_usdt * (FeeDen \div 100)), 3)]

\* the analyzer's _calculate_net_profit; fees.total_fees is in cents
analyzer_calculate_net_profit(order_size, buy_price, sell_price, fees) ==
    LET den == 100 * buy_price
        gross_profit == (sell_price - buy_price) * order_size * 100
        net_profit == gross_profit - fees.total_fees * buy_price
        net_profit_percent == Frac(net_profit, buy_price * order_size)
    IN  [gross_profit |-> Round(Frac(gross_profit, den), 2),
         net_profit |-> Round(Frac(net_profit, den), 2),
         profit_percent |-> Round(net_profit_percent, 3),
         roi |-> Round(net_profit_percent, 2),
         is_profitable |-> FracPositive(Frac(net_profit, den))]

\* steps 4 and 5 of analyze_opportunity; a missing exchange config raises
\* TypeError, order_size = 0 and buy_price = 0 raise ZeroDivisionError, and
\* analyze_opportunity turns them into its error result
AnalyzerProfit(coin, exchange_from, exchange_to, buy_price, sell_price, order_size_usdt) ==
    LET fees == _calculate_all_fees(exchange_from, exchange_to, coin, order_size_usdt, buy_price)
    IN  IF \/ get_exchange_config(exchange_from) = None
           \/ get_exchange_config(exchange_to) = None
           \/ order_size_usdt = 0 \/ buy_price = 0
        THEN [raised |-> TRUE]
        ELSE [raised |-> FALSE, fees |-> fees,
              net_profit |-> analyzer_calculate_net_profit(order_size_usdt, buy_price, sell_price, fees)]

\* steps of _find_opportunities for one direction: fees and net profit
ScannerProfit(coin, buy_ex, sell_ex, buy_price, sell_price, order_size) ==
    LET fees == _calculate_fees(buy_ex, sell_ex, coin, order_size, buy_price)
    IN  IF order_size = 0 \/ buy_price = 0
        THEN [raised |-> TRUE]
        ELSE [raised |-> FALSE, fees |-> fees,
              net_profit |-> _calculate_net_profit(order_size, buy_price, sell_price, fees)]

\* ---------------------- ArbitrageAnalyzer.find_best_opportunities, pairs
\* the (coin, from, to) triples handed to analyze_opportunity, in call order
RECURSIVE AnalyzerEvaluations(_, _)
AnalyzerEvaluations(coins, exchanges) ==
    IF coins = <<>> THEN <<>>
    ELSE LET dirs == Directions(exchanges, 1, 2)
         IN  [k \in 1..Len(dirs) |-> <<Head(coins), dirs[k][1], dirs[k][2]>>]
             \o AnalyzerEvaluations(Tail(coins), exchanges)

\* ------------------------------------------------- scan session registry
MaxErrors == 5

\* opportunities: the result list of the task's newest successful cycle
\* recovered: some successful cycle of the task followed a failed one
NewScanTask(u, args) ==
    [user |-> u, pc |-> "new", cancel |-> FALSE, consecutive_errors |-> 0, args |-> args,
     opportunities |-> <<>>, recovered |-> FALSE]

ScanAlive(t) == scan_tasks[t].pc # "done"
AliveScanTasks(u) == {t \in DOMAIN scan_tasks : scan_tasks[t].user = u /\ ScanAlive(t)}

\* start_scanning without its "already running" check
StartScanningNoGuard(u, args) ==
    /\ scan_tasks' = Append(scan_tasks, NewScanTask(u, args))
    /\ active_scans' = [active_scans EXCEPT ![u] =
           [task |-> Len(scan_tasks) + 1, started_at |-> scan_calls,
            coins |-> args.coins, exchanges |-> args.exchanges,
            min_spread |-> args.min_spread]]
    /\ UNCHANGED opportunities_cache

StartScanning(u, args) ==
    IF active_scans[u] # None
    THEN \* "Scanner already running": return
         UNCHANGED <<active_scans, opportunities_cache, scan_tasks>>
    ELSE /\ scan_tasks' = Append(scan_tasks, NewScanTask(u, args))
         /\ active_scans' = [active_scans EXCEPT ![u] =
                [task |-> Len(scan_tasks) + 1, started_at |-> scan_calls,
                 coins |-> args.coins, exchanges |-> args.exchanges,
                 min_spread |-> args.min_spread]]
         /\ UNCHANGED opportunities_cache

StopScanning(u) ==
    IF active_scans[u] # None
    THEN /\ scan_tasks' = [scan_tasks EXCEPT ![active_scans[u].task].cancel =
                              (scan_tasks[active_scans[u].task].pc # "done")]
         /\ active_scans' = [active_scans EXCEPT ![u] = None]
         /\ UNCHANGED opportunities_cache
    ELSE UNCHANGED <<active_scans, opportunities_cache, scan_tasks>>

get_scan_status(u) ==
    IF active_scans[u] = None THEN [is_scanning |-> FALSE]
    ELSE [is_scanning |-> TRUE, started_at |-> active_scans[u].started_at,
          coins |-> active_scans[u].coins, exchanges |-> active_scans[u].exchanges,
          min_spread |-> active_scans[u].min_spread,
          total_opportunities |-> Len(opportunities_cache[u])]

\* sorted(..., key=net_profit_percent, reverse=True): a stable insertion
\* that keeps the original order of equal keys
RECURSIVE InsertByNetProfit(_, _)
InsertByNetProfit(sorted, opp) ==
    IF sorted = <<>> THEN <<opp>>
    ELSE IF Head(sorted).net_profit_percent >= opp.net_profit_percent
         THEN <<Head(sorted)>> \o InsertByNetProfit(Tail(sorted), opp)
         ELSE <<opp>> \o sorted

RECURSIVE SortByNetProfit(_)
SortByNetProfit(opps) ==
    IF opps = <<>> THEN <<>>
    ELSE InsertByNetProfit(SortByNetProfit(SubSeq(opps, 1, Len(opps) - 1)), opps[Len(opps)])

get_opportunities(u, limit) ==
    LET sorted_opps == SortByNetProfit(opportunities_cache[u])
    IN  SubSeq(sorted_opps, 1, IF limit < Len(sorted_opps) THEN limit ELSE Len(sorted_opps))

\* a scan loop that ends without the registry cleanup
ScanLoopExitKeepsEntry(t, errors) ==
    /\ scan_tasks' = [scan_tasks EXCEPT ![t].pc = "done", ![t].consecutive_errors = errors]
    /\ UNCHANGED active_scans

\* the code after the while loop of _scan_loop
ScanLoopExit(t, errors) ==
    LET u == scan_tasks[t].user IN
    /\ scan_tasks' = [scan_tasks EXCEPT ![t].pc = "done", ![t].consecutive_errors = errors]
    /\ active_scans' = IF errors >= MaxErrors /\ active_scans[u] # None
                       THEN [active_scans EXCEPT ![u] = None]
                       ELSE active_scans

\* CancelledError at the suspension point of a cancelled scan task
ScanCancelled(t) ==
    /\ ScanAlive(t)
    /\ scan_tasks[t].cancel
    /\ IF scan_tasks[t].pc \in {"fetch", "sleep", "backoff_empty"}
       THEN \* inside the try: except CancelledError: break
            ScanLoopExit(t, scan_tasks[t].consecutive_errors)
       ELSE \* never started, or sleeping inside the except handler: the
            \* CancelledError leaves the coroutine
            /\ scan_tasks' = [scan_tasks EXCEPT ![t].pc = "done"]
            /\ UNCHANGED active_scans
    /\ UNCHANGED opportunities_cache

\* the loop condition, at the first step and after every sleep
ScanLoopHead(t) ==
    /\ ~scan_tasks[t].cancel
    /\ scan_tasks[t].pc \in {"new", "sleep", "backoff_empty", "backoff_exc"}
    /\ IF scan_tasks[t].consecutive_errors < MaxErrors
       THEN /\ scan_tasks' = [scan_tasks EXCEPT ![t].pc = "fetch"]
            /\ UNCHANGED active_scans
       ELSE ScanLoopExit(t, scan_tasks[t].consecutive_errors)
    /\ UNCHANGED opportunities_cache

\* a cache update that adds the cycle's result to the list already cached
CacheUpdateMerging(oc, u, opportunities) ==
    IF opportunities # <<>> THEN [oc EXCEPT ![u] = @ \o opportunities] ELSE oc

\* "if opportunities: self.opportunities_cache[user_id] = opportunities"
CacheUpdate(oc, u, opportunities) ==
    IF opportunities # <<>> THEN [oc EXCEPT ![u] = opportunities] ELSE oc

\* a scan cycle that resets the error counter only when it found something
ScanFetchedNoResetOnEmpty(t, fetched) ==
    LET u == scan_tasks[t].user
        args == scan_tasks[t].args
        prices == _fetch_all_prices(args.coins, args.exchanges, fetched)
        opportunities == _find_opportunities(prices, args.min_spread, args.order_size,
                                             args.check_network)
    IN
    /\ ~scan_tasks[t].cancel
    /\ scan_tasks[t].pc = "fetch"
    /\ IF prices = <<>>
       THEN /\ scan_tasks' = [scan_tasks EXCEPT ![t].pc = "backoff_empty",
                                                ![t].consecutive_errors = @ + 1]
            /\ UNCHANGED opportunities_cache
       ELSE IF FindRaises(prices, args.min_spread, args.order_size)
       THEN /\ scan_tasks' = [scan_tasks EXCEPT ![t].pc = "backoff_exc",
                                                ![t].consecutive_errors = @ + 1]
            /\ UNCHANGED opportunities_cache
       ELSE /\ opportunities_cache' = CacheUpdate(opportunities_cache, u, opportunities)
            /\ scan_tasks' = [scan_tasks EXCEPT ![t].pc = "sleep",
                                 ![t].consecutive_errors = IF opportunities # <<>> THEN 0 ELSE @,
                                 ![t].opportunities = opportunities,
                                 ![t].recovered = @ \/ scan_tasks[t].consecutive_errors > 0]
    /\ UNCHANGED active_scans

\* _fetch_all_prices has answered with the tickers fetched
ScanFetched(t, fetched) ==
    LET u == scan_tasks[t].user
        args == scan_tasks[t].args
        prices == _fetch_all_prices(args.coins, args.exchanges, fetched)
        opportunities == _find_opportunities(prices, args.min_spread, args.order_size,
                                             args.check_network)
    IN
    /\ ~scan_tasks[t].cancel
    /\ scan_tasks[t].pc = "fetch"
    /\ IF prices = <<>>
       THEN /\ scan_tasks' = [scan_tasks EXCEPT ![t].pc = "backoff_empty",
                                                ![t].consecutive_errors = @ + 1]
            /\ UNCHANGED opportunities_cache
       ELSE IF FindRaises(prices, args.min_spread, args.order_size)
       THEN /\ scan_tasks' = [scan_tasks EXCEPT ![t].pc = "backoff_exc",
                                                ![t].consecutive_errors = @ + 1]
            /\ UNCHANGED opportunities_cache
       ELSE /\ opportunities_cache' = CacheUpdate(opportunities_cache, u, opportunities)
            /\ scan_tasks' = [scan_tasks EXCEPT ![t].pc = "sleep", ![t].consecutive_errors = 0,
                                                ![t].opportunities = opportunities,
                                                ![t].recovered =
                                                    @ \/ scan_tasks[t].consecutive_errors > 0]
    /\ UNCHANGED active_scans

\* ----------------------------------------------------- scanner inputs
Quote(bid, ask) == [bid |-> bid, ask |-> ask, volume |-> 500000]

\* what one fetch_ticker can answer
QuoteSet == {None, Quote(100, 100), Quote(103, 100), Quote(103, 101), Quote(0, 100), Quote(100, 0)}

\* coin and exchange lists of a scan request
ListPairs ==
    { [coins |-> <<"BTC">>, exchanges |-> <<"binance", "gateio", "kraken">>],
      [coins |-> <<"DOGE", "BTC">>, exchanges |-> <<"gateio", "unlisted", "gateio">>] }

MinSpreads == {-100, 50}
OrderSizes == {-100, 0, 10, 1000}

FindInputs ==
    UNION { [coins : {lp.coins}, exchanges : {lp.exchanges},
             min_spread : MinSpreads, order_size : OrderSizes, check_network : BOOLEAN,
             fetched : [Range(lp.coins) \X Range(lp.exchanges) -> QuoteSet]] : lp \in ListPairs }

\* scan sessions of SpecScan
SA1 == [coins |-> <<"BTC">>, exchanges |-> <<"binance", "gateio">>, min_spread |-> 50,
        order_size |-> 1000, check_network |-> TRUE]
SA2 == [coins |-> <<"BTC">>, exchanges |-> <<"gateio", "binance">>, min_spread |-> -100,
        order_size |-> 0, check_network |-> FALSE]
ScanArgsSet == {SA1, SA2}

Flat == Quote(100, 100)
ScanFetches ==
    { [p \in {"BTC"} \X {"binance", "gateio"} |-> None],
      [p \in {"BTC"} \X {"binance", "gateio"} |-> Flat],
      [p \in {"BTC"} \X {"binance", "gateio"} |-> IF p[2] = "binance" THEN Flat ELSE Quote(103, 101)],
      [p \in {"BTC"} \X {"binance", "gateio"} |-> IF p[2] = "gateio" THEN Flat ELSE Quote(103, 101)] }

ScanInit ==
    /\ active_scans = [u \in Users |-> None]
    /\ opportunities_cache = [u \in Users |-> <<>>]
    /\ scan_tasks = <<>>
    /\ scan_calls = 0

\* -------------------------------- arbitrage_analyzer._check_network_status
cache_ttl == 300

NetworkCoins == {"BTC"}
NetworkExchangeLists ==
    {<<"binance", "gateio">>, <<"gateio", "binance">>, <<"binance", "unlisted">>}

\* f"network_{coin}_{'_'.join(sorted(exchanges))}": lists of distinct exchanges
\* have the same key exactly when they hold the same exchanges
cache_key(coin, exchanges) == [coin |-> coin, exchanges |-> Range(exchanges)]
NetworkKeys == {cache_key(c, x) : c \in NetworkCoins, x \in NetworkExchangeLists}

\* timedelta.seconds of a difference of `elapsed` whole seconds: the seconds
\* field of the normalised (days, seconds, microseconds) triple, 0..86399
TimedeltaSeconds(elapsed) == elapsed % 86400

\* the status of one exchange; get_exchange_config gives None for an exchange
\* that is not listed and subscripting it raises inside the try
ExchangeNetworkStatus(coin, exchange_id) ==
    LET config == get_exchange_config(exchange_id)
    IN  IF config = None
        THEN [deposit_enabled |-> FALSE, withdrawal_enabled |-> FALSE,
              network |-> "unknown", min_withdrawal |-> 0]
        ELSE [deposit_enabled |-> TRUE, withdrawal_enabled |-> TRUE,
              network |-> "TRC20", min_withdrawal |-> WithdrawalFee(config, coin) * 10]

NetworkStatus(coin, exchanges) ==
    [x \in Range(exchanges) |-> ExchangeNetworkStatus(coin, x)]

CacheFresh(entry, at) == TimedeltaSeconds(at - entry.timestamp) < cache_ttl

\* _check_network_status(coin, exchanges) called when the clock shows `now`
_check_network_status(coin, exchanges) ==
    LET key == cache_key(coin, exchanges)
        cached == cache[key]
        hit == cached # None /\ CacheFresh(cached, now)
        status == NetworkStatus(coin, exchanges)
    IN  /\ cache' = IF hit THEN cache
                    ELSE [cache EXCEPT ![key] = [data |-> status, timestamp |-> now]]
        /\ network_result' =
               [coin |-> coin, exchanges |-> exchanges,
                status |-> IF hit THEN cached.data ELSE status,
                from_cache |-> hit,
                had_entry |-> cached # None,
                age |-> IF cached = None THEN 0 ELSE now - cached.timestamp]

NetIdle ==
    /\ cache = [k \in NetworkKeys |-> None]
    /\ now = 0
    /\ network_result = None
    /\ network_steps = 0

FindIdle ==
    /\ scan_input = None
    /\ scan_result = None
    /\ calc_input = None
    /\ calc_result = None
    /\ NetIdle

\* ------------------------------------------- manual_scan, find_best (steps)
ManualScan ==
    LET in == scan_input
        prices == _fetch_all_prices(in.coins, in.exchanges, in.fetched)
    IN
    /\ scan_input # None
    /\ scan_result = None
    /\ scan_result' =
         [op |-> "manual_scan", prices |-> prices,
          raised |-> FindRaises(prices, in.min_spread, in.order_size),
          evaluated |-> Evaluated(prices, in.min_spread, in.order_size),
          opportunities |-> manual_scan(in.coins, in.exchanges, in.min_spread,
                                        in.order_size, in.fetched)]
    /\ UNCHANGED <<scan_input, calc_input, calc_result, netVars, tradeVars, scanVars>>

FindBestOpportunities ==
    /\ scan_input # None
    /\ scan_result = None
    /\ scan_result' = [op |-> "find_best_opportunities",
                       evaluated |-> AnalyzerEvaluations(scan_input.coins, scan_input.exchanges)]
    /\ UNCHANGED <<scan_input, calc_input, calc_result, netVars, tradeVars, scanVars>>

\* ------------------------------------------------------------------ Next
Init == TradeInit /\ ScanInit /\ FindIdle

\* a continuation that is neither a new call nor a budgeted task step
Cont(A) == A /\ UNCHANGED <<calls, steps, scanVars, findVars>>

\* a client call
Call(A) == calls < MaxCalls /\ calls' = calls + 1 /\ A /\ UNCHANGED <<steps, scanVars, findVars>>

\* a loop task resumed by the event loop
Step(A) == steps < MaxSteps /\ steps' = steps + 1 /\ A /\ UNCHANGED <<calls, scanVars, findVars>>

Next ==
    \/ \E u \in Actors, s \in SettingsSet, p \in StartParams : Call(StartTrading(u, s, p))
    \/ \E u \in Actors : Call(StopTradingCall(u))
    \/ \E c \in DOMAIN stop_calls : Cont(StopTradingResume(c))
    \/ \E u \in Actors, p \in ParamsSet : Call(UpdateParameters(u, p))
    \/ \E t \in DOMAIN tasks : Cont(TaskCancelled(t))
    \/ \E t \in DOMAIN tasks : Step(LoopHead(t))
    \/ \E t \in DOMAIN tasks : Step(ArbitrageFetched(t))
    \/ \E t \in DOMAIN tasks : Step(ArbitrageLeg(t))
    \/ \E t \in DOMAIN tasks : Step(ArbitrageComplete(t))
    \/ \E t \in DOMAIN tasks : Step(MarginEntry(t))

Spec == Init /\ [][Next]_vars

\* the trading sessions of two users side by side
TwoUserNext ==
    \/ \E u \in Users, s \in SettingsSet, p \in StartParams : Call(StartTrading(u, s, p))
    \/ \E u \in Users : Call(StopTradingCall(u))
    \/ \E c \in DOMAIN stop_calls : Cont(StopTradingResume(c))
    \/ \E u \in Users, p \in ParamsSet : Call(UpdateParameters(u, p))
    \/ \E t \in DOMAIN tasks : Cont(TaskCancelled(t))
    \/ \E t \in DOMAIN tasks : Step(LoopHead(t))
    \/ \E t \in DOMAIN tasks : Step(ArbitrageFetched(t))
    \/ \E t \in DOMAIN tasks : Step(ArbitrageLeg(t))
    \/ \E t \in DOMAIN tasks : Step(ArbitrageComplete(t))
    \/ \E t \in DOMAIN tasks : Step(MarginEntry(t))

SpecTwoUsers == Init /\ [][TwoUserNext]_vars

\* the trading sessions when the legs of a cycle can fail
LegFaultNext ==
    \/ Next
    \/ \E t \in DOMAIN tasks : Step(ArbitrageLegFailed(t))

SpecLegFaults == Init /\ [][LegFaultNext]_vars

\* the trading sessions when an iteration of either loop can fail
LoopFaultNext ==
    \/ LegFaultNext
    \/ \E t \in DOMAIN tasks : Step(MarginIterationFailed(t))

SpecLoopFaults == Init /\ [][LoopFaultNext]_vars

\* one trading session left to run until it has completed MaxTrades cycles
RunStep(A) ==
    /\ \A u \in Actors : Len(trade_history[u]) < MaxTrades /\ log_seq[u] < MaxRunLogs
    /\ A
    /\ UNCHANGED <<calls, steps, scanVars, findVars>>

RunNext ==
    \/ /\ calls = 0
       /\ \E u \in Actors, s \in SettingsSet, p \in StartParams : Call(StartTrading(u, s, p))
    \/ \E t \in DOMAIN tasks : RunStep(LoopHead(t))
    \/ \E t \in DOMAIN tasks : RunStep(ArbitrageFetched(t))
    \/ \E t \in DOMAIN tasks : RunStep(ArbitrageLeg(t))
    \/ \E t \in DOMAIN tasks : RunStep(ArbitrageComplete(t))
    \/ \E t \in DOMAIN tasks : RunStep(MarginEntry(t))

SpecRun == Init /\ [][RunNext]_vars

\* the scan sessions: start_scanning, stop_scanning and the scan loops
ScanCall(A) ==
    scan_calls < MaxScanCalls /\ scan_calls' = scan_calls + 1 /\ A /\ UNCHANGED <<tradeVars, findVars>>

ScanStep(A) == A /\ UNCHANGED <<scan_calls, tradeVars, findVars>>

ScanTaskStep(t) ==
    \/ ScanStep(ScanCancelled(t))
    \/ ScanStep(ScanLoopHead(t))
    \/ \E fetched \in ScanFetches : ScanStep(ScanFetched(t, fetched))

ScanNext ==
    \/ \E u \in Actors, args \in ScanArgsSet : ScanCall(StartScanning(u, args))
    \/ \E u \in Actors : ScanCall(StopScanning(u))
    \/ \E t \in DOMAIN scan_tasks : ScanTaskStep(t)

SpecScan == Init /\ [][ScanNext]_vars

\* the event loop resumes every task that is ready
ScanTaskRuns(t) == IF t \in DOMAIN scan_tasks THEN ScanTaskStep(t) ELSE FALSE

SpecScanFair == SpecScan /\ \A t \in 1..MaxScanCalls : WF_vars(ScanTaskRuns(t))

\* the log buffer filled past its capacity by update_parameters calls
LogNext ==
    \E u \in Actors, p \in ParamsSet :
        /\ log_seq[u] < MaxLogs
        /\ UpdateParameters(u, p)
        /\ UNCHANGED <<calls, steps, scanVars, findVars>>

SpecLog == Init /\ [][LogNext]_vars

\* one scan request: manual_scan, the analyzer's pair scan, or a scan session
\* that runs one cycle on the same arguments and tickers
FindInit ==
    /\ TradeInit /\ ScanInit /\ scan_input \in FindInputs /\ scan_result = None
    /\ calc_input = None /\ calc_result = None
    /\ NetIdle

ScanInputArgs ==
    [coins |-> scan_input.coins, exchanges |-> scan_input.exchanges,
     min_spread |-> scan_input.min_spread, order_size |-> scan_input.order_size,
     check_network |-> scan_input.check_network]

FindNext ==
    \/ scan_tasks = <<>> /\ ManualScan
    \/ scan_tasks = <<>> /\ FindBestOpportunities
    \/ /\ scan_tasks = <<>> /\ scan_result = None
       /\ \E u \in Actors : ScanCall(StartScanning(u, ScanInputArgs))
    \/ /\ scan_result = None
       /\ \E t \in DOMAIN scan_tasks :
            /\ scan_tasks[t].pc = "new"
            /\ ScanStep(ScanLoopHead(t))
    \/ /\ scan_result = None
       /\ \E t \in DOMAIN scan_tasks : ScanStep(ScanFetched(t, scan_input.fetched))

SpecFind == FindInit /\ [][FindNext]_vars

\* one profit calculation by the calculator, the analyzer or the scanner
CalcCoins == {"BTC", "DOGE"}
CalcExchanges == {"binance", "gateio", "kraken"}
CalcBuyPrices == {100, 101, 103}
CalcSellPrices == {100, 102, 107, 109}
CalcOrderSizes == {0, 10, 250, 1000}

CalcInputs ==
    { in \in [coin : CalcCoins, buy_exchange : CalcExchanges, sell_exchange : CalcExchanges,
              buy_price : CalcBuyPrices, sell_price : CalcSellPrices, order_size : CalcOrderSizes] :
        in.buy_exchange # in.sell_exchange }

CalcInit ==
    /\ TradeInit /\ ScanInit
    /\ scan_input = None /\ scan_result = None
    /\ calc_input \in CalcInputs /\ calc_result = None
    /\ NetIdle

CalculateSingleTrade ==
    /\ calc_input # None /\ calc_result = None
    /\ calc_result' = [op |-> "calculator",
                       result |-> _calculate_single_trade(calc_input.coin, calc_input.buy_exchange,
                                     calc_input.sell_exchange, calc_input.buy_price,
                                     calc_input.sell_price, calc_input.order_size)]
    /\ UNCHANGED <<calc_input, scan_input, scan_result, netVars, tradeVars, scanVars>>

AnalyzeProfit ==
    /\ calc_input # None /\ calc_result = None
    /\ calc_result' = [op |-> "analyzer",
                       result |-> AnalyzerProfit(calc_input.coin, calc_input.buy_exchange,
                                     calc_input.sell_exchange, calc_input.buy_price,
                                     calc_input.sell_price, calc_input.order_size)]
    /\ UNCHANGED <<calc_input, scan_input, scan_result, netVars, tradeVars, scanVars>>

ScanProfit ==
    /\ calc_input # None /\ calc_result = None
    /\ calc_result' = [op |-> "scanner",
                       result |-> ScannerProfit(calc_input.coin, calc_input.buy_exchange,
                                     calc_input.sell_exchange, calc_input.buy_price,
                                     calc_input.sell_price, calc_input.order_size)]
    /\ UNCHANGED <<calc_input, scan_input, scan_result, netVars, tradeVars, scanVars>>

CalcNext == CalculateSingleTrade \/ AnalyzeProfit \/ ScanProfit

SpecCalc == CalcInit /\ [][CalcNext]_vars

\* ------------------- analyze_opportunity, calculate_expected_profit (steps)
\* a bid or ask of a ticker: ccxt reports a number or nothing
MissingPrice == [missing |-> TRUE, value |-> 0]
Price(v) == [missing |-> FALSE, value |-> v]
EvalPrices == {MissingPrice} \cup {Price(v) : v \in {0, 100, 103}}

\* what fetch_ticker answers for one exchange; None when the fetch raised
EvalTickers == {None} \cup [bid : EvalPrices, ask : EvalPrices]
EvalExchanges == <<"binance", "gateio">>
EvalOrderSizes == {10, 100}

EvalInputs ==
    [coin : {"BTC"}, exchange_from : {EvalExchanges[1]}, exchange_to : {EvalExchanges[2]},
     order_size : EvalOrderSizes, tickers : [Range(EvalExchanges) -> EvalTickers]]

\* _get_prices / _get_current_prices: {} as soon as one fetch raises
_get_prices(exchanges, tickers) ==
    IF \E k \in DOMAIN exchanges : tickers[exchanges[k]] = None
    THEN None
    ELSE [e \in Range(exchanges) |-> tickers[e]]

\* the arithmetic on the two leg prices raises: a missing price is a
\* TypeError at sell_price - buy_price, a zero buy price a ZeroDivisionError
LegPricesRaise(buy_price, sell_price) ==
    buy_price.missing \/ sell_price.missing \/ buy_price.value = 0

analyze_opportunity(coin, exchange_from, exchange_to, order_size_usdt, tickers) ==
    LET prices == _get_prices(<<exchange_from, exchange_to>>, tickers)
        buy_price == prices[exchange_from].ask
        sell_price == prices[exchange_to].bid
        profit == AnalyzerProfit(coin, exchange_from, exchange_to, buy_price.value,
                                 sell_price.value, order_size_usdt)
    IN  IF prices = None THEN [success |-> FALSE, error |-> "Failed to fetch prices"]
        ELSE IF LegPricesRaise(buy_price, sell_price) \/ profit.raised
        THEN [success |-> FALSE, error |-> "exception"]
        ELSE [success |-> TRUE, coin |-> coin,
              prices |-> [buy |-> buy_price.value, sell |-> sell_price.value],
              fees |-> profit.fees, net_profit |-> profit.net_profit]

calculate_expected_profit(coin, buy_exchange, sell_exchange, order_size, tickers) ==
    LET prices == _get_prices(<<buy_exchange, sell_exchange>>, tickers)
        buy_price == prices[buy_exchange].ask
        sell_price == prices[sell_exchange].bid
        single_trade == _calculate_single_trade(coin, buy_exchange, sell_exchange,
                                                buy_price.value, sell_price.value, order_size)
    IN  IF prices = None THEN [success |-> FALSE, error |-> "Failed to fetch prices"]
        ELSE IF LegPricesRaise(buy_price, sell_price) \/ single_trade.raised
        THEN [success |-> FALSE, error |-> "exception"]
        ELSE [success |-> TRUE, coin |-> coin,
              current_prices |-> [buy |-> buy_price.value, sell |-> sell_price.value],
              order_size |-> order_size, single_trade |-> single_trade]

EvalInit ==
    /\ TradeInit /\ ScanInit
    /\ scan_input = None /\ scan_result = None
    /\ calc_input \in EvalInputs /\ calc_result = None
    /\ NetIdle

AnalyzeOpportunity ==
    /\ calc_input # None /\ calc_result = None
    /\ calc_result' = [op |-> "analyze_opportunity",
                       result |-> analyze_opportunity(calc_input.coin, calc_input.exchange_from,
                                     calc_input.exchange_to, calc_input.order_size,
                                     calc_input.tickers)]
    /\ UNCHANGED <<calc_input, scan_input, scan_result, netVars, tradeVars, scanVars>>

CalculateExpectedProfit ==
    /\ calc_input # None /\ calc_result = None
    /\ calc_result' = [op |-> "calculate_expected_profit",
                       result |-> calculate_expected_profit(calc_input.coin,
                                     calc_input.exchange_from, calc_input.exchange_to,
                                     calc_input.order_size, calc_input.tickers)]
    /\ UNCHANGED <<calc_input, scan_input, scan_result, netVars, tradeVars, scanVars>>

EvalNext == AnalyzeOpportunity \/ CalculateExpectedProfit

SpecEval == EvalInit /\ [][EvalNext]_vars

\* ------------------------------------------- the network status cache (steps)
\* the clock advances between calls; MaxNetSteps bounds advances and calls
Elapses == {299, 300, 86500}

ClockAdvances(e) ==
    /\ network_steps < MaxNetSteps
    /\ network_steps' = network_steps + 1
    /\ now' = now + e
    /\ UNCHANGED <<cache, network_result>>
    /\ UNCHANGED <<tradeVars, scanVars, scan_input, scan_result, calc_input, calc_result>>

CheckNetworkStatus(coin, exchanges) ==
    /\ network_steps < MaxNetSteps
    /\ network_steps' = network_steps + 1
    /\ _check_network_status(coin, exchanges)
    /\ UNCHANGED now
    /\ UNCHANGED <<tradeVars, scanVars, scan_input, scan_result, calc_input, calc_result>>

NetNext ==
    \/ \E e \in Elapses : ClockAdvances(e)
    \/ \E c \in NetworkCoins, x \in NetworkExchangeLists : CheckNetworkStatus(c, x)

SpecNet == Init /\ [][NetNext]_vars

\* ---------------------------- the analyzer's risk and profitability scores
\* spreads are in 1/100 percent, profit percents in 1/1000 percent (the three
\* decimals _calculate_net_profit rounds to), times in seconds, volumes in USDT
NoVolume == [missing |-> TRUE, value |-> 0]
Volume(v) == [missing |-> FALSE, value |-> v]

\* int(x) of the quotient n / d: truncation towards zero
Trunc(n, d) == IF n >= 0 THEN n \div d ELSE -((-n) \div d)

Max(a, b) == IF a >= b THEN a ELSE b

RECURSIVE SumOver(_, _)
SumOver(f, S) ==
    IF S = {} THEN 0
    ELSE LET x == CHOOSE y \in S : TRUE IN f[x] + SumOver(f, S \ {x})

\* the points _calculate_risk_score adds up before it caps them
RiskPoints(spread, network_status, execution_time, prices) ==
    LET spread_risk == IF spread < 50 THEN 40
                       ELSE IF spread < 100 THEN 20
                       ELSE IF spread < 200 THEN 10 ELSE 0
        network_risk ==
            SumOver([x \in DOMAIN network_status |->
                        (IF ~network_status[x].deposit_enabled THEN 30 ELSE 0)
                      + (IF ~network_status[x].withdrawal_enabled THEN 30 ELSE 0)],
                    DOMAIN network_status)
        time_risk == IF execution_time > 600 THEN 25
                     ELSE IF execution_time > 300 THEN 15
                     ELSE IF execution_time > 180 THEN 10 ELSE 0
        volume_risk ==
            SumOver([x \in DOMAIN prices |->
                        IF prices[x].volume.value < 100000 THEN 15 ELSE 0],
                    DOMAIN prices)
    IN  spread_risk + network_risk + time_risk + volume_risk

\* a risk score that is the sum of the points, without the cap
RiskScoreUncapped(spread, network_status, execution_time, prices) ==
    IF \E x \in DOMAIN prices : prices[x].volume.missing
    THEN [raised |-> TRUE, score |-> 0]
    ELSE [raised |-> FALSE,
          score |-> RiskPoints(spread, network_status, execution_time, prices)]

\* "price_data.get('volume', 0) < 100000" raises a TypeError on a volume the
\* ticker reported as None; otherwise min(risk, 100)
_calculate_risk_score(spread, network_status, execution_time, prices) ==
    IF \E x \in DOMAIN prices : prices[x].volume.missing
    THEN [raised |-> TRUE, score |-> 0]
    ELSE [raised |-> FALSE,
          score |-> Min(RiskPoints(spread, network_status, execution_time, prices), 100)]

ProfitPoints(profit_percent) ==
    IF profit_percent >= 5000 THEN 60
    ELSE IF profit_percent >= 3000 THEN 50
    ELSE IF profit_percent >= 2000 THEN 40
    ELSE IF profit_percent >= 1000 THEN 30
    ELSE IF profit_percent >= 500 THEN 20
    ELSE Max(0, Trunc(profit_percent * 20, 1000))

_calculate_profitability_score(profit_percent, risk_score, execution_time, network_status) ==
    LET risk_part == Trunc((100 - risk_score) * 25, 100)
        speed == IF execution_time < 120 THEN 10
                 ELSE IF execution_time < 300 THEN 7
                 ELSE IF execution_time < 600 THEN 5 ELSE 2
        all_enabled == \A x \in DOMAIN network_status :
                           network_status[x].deposit_enabled
                           /\ network_status[x].withdrawal_enabled
    IN  Min(ProfitPoints(profit_percent) + risk_part + speed
            + (IF all_enabled THEN 5 ELSE 0), 100)

\* steps 7 and 8 of analyze_opportunity
AnalyzerScores(in) ==
    LET risk == _calculate_risk_score(in.spread, in.network_status,
                                      in.execution_time, in.prices)
    IN  IF risk.raised THEN [raised |-> TRUE, risk |-> 0, profitability |-> 0]
        ELSE [raised |-> FALSE, risk |-> risk.score,
              profitability |-> _calculate_profitability_score(
                  in.profit_percent, risk.score, in.execution_time, in.network_status)]

ScoreExchanges == {"binance", "gateio"}
ScoreSpreads == {-500, 49, 50, 99, 100, 199, 200}
ScoreProfits == {-5000, -1, 49, 50, 499, 500, 999, 1000, 2000, 3000, 5000}
ScoreTimes == {100, 120, 181, 300, 301, 600, 601}
ScoreVolumes == {NoVolume, Volume(99999), Volume(100000)}
ScoreInputs ==
    [spread : ScoreSpreads, profit_percent : ScoreProfits, execution_time : ScoreTimes,
     network_status : [ScoreExchanges -> [deposit_enabled : BOOLEAN,
                                          withdrawal_enabled : BOOLEAN]],
     prices : [ScoreExchanges -> [volume : ScoreVolumes]]]

ScoreInit ==
    /\ TradeInit /\ ScanInit
    /\ scan_input = None /\ scan_result = None
    /\ calc_input \in ScoreInputs /\ calc_result = None
    /\ NetIdle

CalculateRiskScore ==
    /\ calc_input # None /\ calc_result = None
    /\ calc_result' = [op |-> "risk",
                       result |-> _calculate_risk_score(calc_input.spread,
                                     calc_input.network_status,
                                     calc_input.execution_time, calc_input.prices)]
    /\ UNCHANGED <<calc_input, scan_input, scan_result, netVars, tradeVars, scanVars>>

CalculateScores ==
    /\ calc_input # None /\ calc_result = None
    /\ calc_result' = [op |-> "scores", result |-> AnalyzerScores(calc_input)]
    /\ UNCHANGED <<calc_input, scan_input, scan_result, netVars, tradeVars, scanVars>>

ScoreNext == CalculateRiskScore \/ CalculateScores

SpecScore == ScoreInit /\ [][ScoreNext]_vars

\* ================================================================ claims
\* C1: start_trading for a user whose session is running raises "already
\* running" and changes nothing: no task is created and the user's settings,
\* params, logs, PnL accumulator and running flag stay as they were.
C1_StartWhileRunningRejected ==
    [][\A u \in Users, s \in SettingsSet, p \in ParamsSet :
         (active_bots[u] = "True" /\ StartTrading(u, s, p))
            => /\ start_outcome'[u] = "already_running"
               /\ UNCHANGED <<tasks, bot_tasks, user_settings, trade_params, bot_logs,
                              log_seq, pnl_data, active_bots, active_trades, trade_history>>]_vars

\* a start was rejected while the loop task of the running session was alive
C1_Witness ==
    /\ start_outcome["u1"] = "already_running"
    /\ active_bots["u1"] = "True"
    /\ bot_tasks["u1"] # NoTask
    /\ Alive(bot_tasks["u1"])

\* C2: start_trading calls for one user with no stop_trading between them
\* never leave two loop tasks of that user alive: two live tasks of a user
\* are always separated by a stop_trading call for that user.
C2_OneLoopPerStartRun ==
    \A t1, t2 \in DOMAIN tasks :
        (t1 # t2 /\ tasks[t1].user = tasks[t2].user /\ Alive(t1) /\ Alive(t2))
            => tasks[t1].stops # tasks[t2].stops

\* start_trading was called twice with no stop, and one loop is alive
C2_Witness ==
    /\ stop_calls = <<>>
    /\ calls >= 2
    /\ start_outcome["u1"] = "already_running"
    /\ Cardinality(AliveTasks("u1")) = 1
    /\ steps >= 1

\* C3 (as stated): once stop_trading(u) has returned, u's log buffer does not
\* change until the next start_trading(u).
C3_NoLogAfterStop ==
    [][\A u \in Users :
         (stopped_since[u] /\ stopped_since'[u]) => bot_logs'[u] = bot_logs[u]]_vars

\* C4 (as stated): when a stop_trading(u) call on a running session returns,
\* u's flag is false, bot_tasks holds no task for u, no loop task of u is
\* alive and the newest log entry is the info "stopped" entry.
C4_StopReturnsAfterLoopExit ==
    [][\A c \in DOMAIN stop_calls' :
         ( /\ stop_calls'[c].was_running
           /\ stop_calls'[c].pc = "returned"
           /\ (c \notin DOMAIN stop_calls \/ stop_calls[c].pc # "returned") )
         => LET u == stop_calls'[c].user IN
            /\ active_bots'[u] = "False"
            /\ bot_tasks'[u] = NoTask
            /\ \A t \in DOMAIN tasks' : tasks'[t].user = u => tasks'[t].pc = "done"
            /\ bot_logs'[u] # <<>>
            /\ Head(bot_logs'[u]).kind = "info"
            /\ Head(bot_logs'[u]).msg = "bot_stopped"]_vars

\* C5: the log buffer of every user holds at most 100 entries, newest first
\* in emission order, and a full buffer loses its oldest entry: the buffer is
\* always the latest min(emitted, 100) emissions, the newest at index 1.
C5_LogBufferNewestFirstCapped ==
    \A u \in Users :
        /\ Len(bot_logs[u]) <= LogCap
        /\ Len(bot_logs[u]) = IF log_seq[u] < LogCap THEN log_seq[u] ELSE LogCap
        /\ \A i \in DOMAIN bot_logs[u] : bot_logs[u][i].n = log_seq[u] - i + 1

\* more entries were emitted than the buffer holds, so entries were evicted
C5_Witness ==
    /\ log_seq["u1"] > LogCap + 1
    /\ Len(bot_logs["u1"]) = LogCap
    /\ bot_logs["u1"][LogCap].n = log_seq["u1"] - LogCap + 1

\* C6: start_scanning for a user with a registered scan session is a no-op:
\* no scan task is created and the registered session (task, start time,
\* coins, exchanges, min spread) and the cache stay as they were.
C6_StartScanningRegisteredNoOp ==
    [][\A u \in Users, args \in ScanArgsSet :
         (active_scans[u] # None /\ StartScanning(u, args))
            => UNCHANGED <<active_scans, scan_tasks, opportunities_cache>>]_vars

\* the first session is still the registered one after a later start_scanning
C6_Witness ==
    /\ active_scans["u1"] # None
    /\ active_scans["u1"].started_at = 0
    /\ Len(scan_tasks) = 1
    /\ scan_calls >= 2

ReachedErrorLimit(t) ==
    IF t \in DOMAIN scan_tasks THEN scan_tasks[t].consecutive_errors >= MaxErrors ELSE FALSE

EndedUnregistered(t) ==
    IF t \in DOMAIN scan_tasks
    THEN /\ scan_tasks[t].pc = "done"
         /\ (active_scans[scan_tasks[t].user] = None
             \/ active_scans[scan_tasks[t].user].task # t)
    ELSE FALSE

\* C7: a scan loop whose fifth consecutive cycle failed eventually terminates
\* with the user's registry entry no longer naming it, and when it leaves the
\* loop on the error limit get_scan_status(u) reports is_scanning = false.
C7_FiveFailuresEndSession ==
    /\ \A t \in 1..MaxScanCalls : ReachedErrorLimit(t) ~> EndedUnregistered(t)
    /\ [][\A t \in DOMAIN scan_tasks :
            ( /\ scan_tasks[t].consecutive_errors >= MaxErrors
              /\ ~scan_tasks[t].cancel
              /\ scan_tasks[t].pc # "done"
              /\ scan_tasks'[t].pc = "done" )
            => ~get_scan_status(scan_tasks[t].user)'.is_scanning]_vars

\* a loop ended on the error limit and the user is reported as not scanning
C7_Witness ==
    \E t \in DOMAIN scan_tasks :
        /\ scan_tasks[t].pc = "done"
        /\ scan_tasks[t].consecutive_errors = MaxErrors
        /\ ~scan_tasks[t].cancel
        /\ ~get_scan_status(scan_tasks[t].user).is_scanning

\* C8 (as stated): when stop_scanning(u) returns u's scan loop has exited and
\* the registry slot is free, and no two scan loops of u are alive together.
C8_StopScanningWaitsForLoop ==
    /\ [][\A u \in Users :
            (active_scans[u] # None /\ StopScanning(u))
               => (active_scans'[u] = None /\ AliveScanTasks(u)' = {})]_vars
    /\ [](\A u \in Users : Cardinality(AliveScanTasks(u)) <= 1)

\* C9: no opportunity returned by manual_scan or published to the scan-loop
\* cache has net_profit_percent below zero, whatever prices, min spread and
\* order size the scan ran on.
C9_NoNegativeNetProfit ==
    /\ \A u \in Users : \A k \in DOMAIN opportunities_cache[u] :
           opportunities_cache[u][k].net_profit_percent >= 0
    /\ (scan_result # None /\ scan_result.op = "manual_scan")
           => \A k \in DOMAIN scan_result.opportunities :
                  scan_result.opportunities[k].net_profit_percent >= 0

\* a direction whose raw spread reached min spread lost money after fees and
\* was left out, while another direction of the scan was returned
C9_Witness ==
    /\ scan_result # None
    /\ scan_result.op = "manual_scan"
    /\ scan_result.opportunities # <<>>
    /\ scan_input.order_size > 0
    /\ \E c \in DOMAIN scan_result.prices :
         \E d \in Range(CoinDirections(scan_result.prices[c])) :
            /\ _quick_network_check(scan_result.prices[c].coin)
            /\ PassesPrices(scan_result.prices[c], d)
            /\ PassesSpread(scan_result.prices[c], d, scan_input.min_spread)
            /\ Candidate(scan_result.prices[c], d, scan_input.min_spread,
                         scan_input.order_size, TRUE) = <<>>

Count(seq, x) == Cardinality({k \in DOMAIN seq : seq[k] = x})
NoRepeats(seq) == \A i, j \in DOMAIN seq : seq[i] = seq[j] => i = j

\* every ordered pair of distinct exchanges of S, for coin, occurs exactly
\* once in evaluated, and nothing else is evaluated for coin
EachDirectionOnce(evaluated, coin, S) ==
    /\ \A a, b \in S : a # b => Count(evaluated, <<coin, a, b>>) = 1
    /\ Cardinality({k \in DOMAIN evaluated : evaluated[k][1] = coin})
          = Cardinality(S) * (Cardinality(S) - 1)

DescendingByNetProfit(seq) ==
    \A i, j \in DOMAIN seq : i < j => seq[i].net_profit_percent >= seq[j].net_profit_percent

\* C11 (as stated): the list manual_scan returns and the list the scan loop
\* publishes to the cache are ordered by net_profit_percent, descending.
C11_ScanResultsDescending ==
    /\ \A u \in Users : DescendingByNetProfit(opportunities_cache[u])
    /\ (scan_result # None /\ scan_result.op = "manual_scan")
           => DescendingByNetProfit(scan_result.opportunities)

\* the scenario of the worked example: BTC bought on binance at 100, sold
\* on gateio at 102, order size 1000
WorkedExample ==
    /\ calc_input.coin = "BTC"
    /\ calc_input.buy_exchange = "binance" /\ calc_input.sell_exchange = "gateio"
    /\ calc_input.buy_price = 100 /\ calc_input.sell_price = 102
    /\ calc_input.order_size = 1000

\* C12: for the worked example the calculator's single-trade result has
\* gross profit 20.00, total fees 4.55 (1.00 + 2.00 + 0.05 + 0.50 + 1.00),
\* net profit 15.45 and is_profitable = true (amounts in cents).
C12_WorkedExample ==
    (calc_result # None /\ calc_result.op = "calculator" /\ WorkedExample)
        => /\ ~calc_result.result.raised
           /\ calc_result.result.profit.gross_profit = 2000
           /\ calc_result.result.fees.buy_trading_fee = 100
           /\ calc_result.result.fees.sell_trading_fee = 200
           /\ calc_result.result.fees.withdrawal_fee = 5
           /\ calc_result.result.fees.network_fee = 50
           /\ calc_result.result.fees.slippage = 100
           /\ calc_result.result.fees.total_fees = 455
           /\ calc_result.result.profit.net_profit = 1545
           /\ calc_result.result.is_profitable

\* the calculator has answered the worked example
C12_Witness ==
    /\ calc_result # None
    /\ calc_result.op = "calculator"
    /\ WorkedExample
    /\ calc_result.result.profit.net_profit = 1545

\* C13 (as stated): in every result of the calculator, the analyzer and the
\* scanner the is_profitable flag is true exactly when the net profit reported
\* in that result is above zero, and the reported net profit is the reported
\* gross profit minus the reported total fees.
C13_FlagMatchesReportedNet ==
    (calc_result # None /\ ~calc_result.result.raised) =>
        LET r == calc_result.result IN
        CASE calc_result.op = "calculator" ->
               /\ r.is_profitable <=> (r.profit.net_profit > 0)
               /\ r.profit.net_profit = r.profit.gross_profit - r.fees.total_fees
          [] calc_result.op = "analyzer" ->
               /\ r.net_profit.is_profitable <=> (r.net_profit.net_profit > 0)
               /\ r.net_profit.net_profit = r.net_profit.gross_profit - r.fees.total_fees
          [] calc_result.op = "scanner" ->
               /\ r.net_profit.is_profitable <=> FracPositive(r.net_profit.net_profit)
               /\ r.net_profit.net_profit.den = r.net_profit.gross_profit.den
               /\ r.net_profit.net_profit.num
                     = r.net_profit.gross_profit.num
                         - r.fees.total_fees * (r.net_profit.gross_profit.den \div FeeDen)

IsPrefix(s, full) == Len(s) <= Len(full) /\ s = SubSeq(full, 1, Len(s))

HasTrade(trades, id) == \E k \in DOMAIN trades : trades[k].id = id

\* the step appends a log entry of the given kind to u's buffer
EmitsKind(u, kind) ==
    /\ log_seq'[u] > log_seq[u]
    /\ bot_logs'[u] # <<>>
    /\ Head(bot_logs'[u]).kind = kind

\* C14: the leg logs of a cycle are emitted in the order buy, transfer, sell
\* while the cycle's record is in the active set; the step that emits the
\* profit log belongs to a cycle whose three leg logs were all emitted, and
\* it has updated the PnL accumulator, removed the record from the active
\* set and appended it to the history.
C14_CycleEventOrder ==
    /\ [](\A t \in DOMAIN tasks :
            /\ IsPrefix(tasks[t].legs, <<"buy", "transfer", "sell">>)
            /\ tasks[t].legs # <<>> =>
                 /\ tasks[t].trade # None
                 /\ HasTrade(active_trades[tasks[t].user], tasks[t].trade.id))
    /\ [][\A u \in Users :
            EmitsKind(u, "profit") =>
              \E t \in DOMAIN tasks :
                /\ tasks[t].user = u
                /\ tasks[t].legs = <<"buy", "transfer", "sell">>
                /\ tasks'[t].legs = <<>>
                /\ ~HasTrade(active_trades'[u], tasks[t].trade.id)
                /\ Len(trade_history'[u]) = Len(trade_history[u]) + 1
                /\ trade_history'[u][Len(trade_history'[u])].id = tasks[t].trade.id
                /\ trade_history'[u][Len(trade_history'[u])].status = "completed"
                /\ pnl_data'[u].trades_count = pnl_data[u].trades_count + 1
                /\ pnl_data'[u].total_pnl =
                     pnl_data[u].total_pnl + trade_history'[u][Len(trade_history'[u])].pnl]_vars

\* a cycle has completed: its record is in the history and the profit log
\* is the newest entry
C14_Witness ==
    /\ trade_history["u1"] # <<>>
    /\ bot_logs["u1"] # <<>>
    /\ Head(bot_logs["u1"]).kind = "profit"
    /\ pnl_data["u1"].trades_count = 1

\* C15 (as stated): on the step where a leg of task t's cycle fails, the
\* cycle's record is no longer in the user's active set, an error log is the
\* newest entry, the PnL accumulator and the history are unchanged and the
\* loop task is still running.
C15_LegFailureDiscardsRecord ==
    [][\A t \in DOMAIN tasks :
         ( /\ tasks[t].pc \in {"buy_sleep", "transfer_sleep", "sell_sleep"}
           /\ tasks'[t].pc = "cycle_sleep"
           /\ tasks'[t].legs = <<>>
           /\ EmitsKind(tasks[t].user, "error") )
         => LET u == tasks[t].user IN
            /\ ~HasTrade(active_trades'[u], tasks[t].trade.id)
            /\ pnl_data'[u] = pnl_data[u]
            /\ trade_history'[u] = trade_history[u]
            /\ Alive(t)']_vars

\* the step belongs to a stop_trading call: the call itself, its resumption,
\* or the end of the loop task it cancelled
StopStep ==
    \/ stop_calls' # stop_calls
    \/ \E t \in DOMAIN tasks : tasks[t].cancel /\ tasks[t].pc # "done" /\ tasks'[t].pc = "done"

\* C16: no step of a stop_trading call changes the active-trade set, the
\* history or the PnL accumulator, and the record of a cycle that the stop
\* interrupted stays in the active set, still active and not in the history.
C16_StopKeepsTrades ==
    /\ [][StopStep => /\ active_trades' = active_trades
                      /\ trade_history' = trade_history
                      /\ pnl_data' = pnl_data]_vars
    /\ [](\A t \in DOMAIN tasks :
            (tasks[t].pc = "done" /\ tasks[t].trade # None) =>
               LET u == tasks[t].user IN
               /\ \E k \in DOMAIN active_trades[u] :
                     /\ active_trades[u][k].id = tasks[t].trade.id
                     /\ active_trades[u][k].status = "active"
               /\ ~HasTrade(trade_history[u], tasks[t].trade.id))

\* a stop_trading call has returned after cancelling a loop in mid-cycle
C16_Witness ==
    /\ \E c \in DOMAIN stop_calls : stop_calls[c].pc = "returned" /\ stop_calls[c].was_running
    /\ \E t \in DOMAIN tasks :
         /\ tasks[t].pc = "done"
         /\ tasks[t].trade # None
         /\ HasTrade(active_trades["u1"], tasks[t].trade.id)

\* the step appends the update_parameters log entry to u's buffer
ParamsUpdated(u) ==
    /\ EmitsKind(u, "info")
    /\ Head(bot_logs'[u]).msg = "params_updated"

\* the step takes task t from a sleep (or its creation) into a new iteration
IterationBegins(t) ==
    /\ tasks[t].pc \in {"new", "cycle_sleep", "error_sleep"}
    /\ tasks'[t].pc \in {"fetch", "entry_sleep"}

\* C17: update_parameters(u, p) stores a parameter set for u, appends exactly
\* one info entry and changes no running iteration; the parameter set of a
\* loop task changes only when an iteration begins, to the set stored at
\* that moment; the coin, threshold and order size of the cycle and the
\* delay of the sleep that ends the iteration are those of the set read at
\* its start.
C17_ParametersPerIteration ==
    /\ [][\A u \in Users :
            ParamsUpdated(u) =>
              /\ trade_params'[u] \in ParamsSet
              /\ log_seq'[u] = log_seq[u] + 1
              /\ Len(bot_logs'[u]) = Len(bot_logs[u]) + 1
              /\ tasks' = tasks]_vars
    /\ [][\A t \in DOMAIN tasks :
            /\ IterationBegins(t) => tasks'[t].params = trade_params[tasks[t].user]
            /\ ~IterationBegins(t) => tasks'[t].params = tasks[t].params]_vars
    /\ [](\A t \in DOMAIN tasks :
            /\ tasks[t].trade # None =>
                 /\ tasks[t].trade.coin = tasks[t].params.coin
                 /\ tasks[t].trade.order_size = tasks[t].params.order_size
                 /\ SpreadAbove(tasks[t].opp, tasks[t].params.min_profit_threshold)
            /\ tasks[t].pc = "cycle_sleep" =>
                 tasks[t].delay = frequency_delay(tasks[t].kind, tasks[t].params.frequency))

\* an update arrived in mid-cycle: the running cycle still trades with the
\* set it started with while the stored set is already the new one
C17_Witness ==
    \E t \in DOMAIN tasks :
       /\ tasks[t].pc \in {"transfer_sleep", "sell_sleep"}
       /\ ~tasks[t].cancel
       /\ tasks[t].params = P1
       /\ trade_params["u1"] = P2
       /\ tasks[t].trade.order_size = P1.order_size

\* the step is a successful scan cycle of task t
CycleSucceeds(t) ==
    /\ t \in DOMAIN scan_tasks
    /\ scan_tasks[t].pc = "fetch"
    /\ scan_tasks'[t].pc = "sleep"

\* C18 (as stated): after every successful scan cycle the user's cached list
\* is exactly the result list of that cycle, an empty result included.
C18_CacheEqualsCycleResult ==
    [][\A t \in DOMAIN scan_tasks :
         CycleSucceeds(t) =>
            opportunities_cache'[scan_tasks[t].user] = scan_tasks'[t].opportunities]_vars

\* C19: the list readers get for a user is empty or the complete result of
\* one finished scan cycle of that user: the cached list starts empty, every
\* change of it installs the whole result list of the cycle of that user
\* that finishes in the same step, get_opportunities returns entries of the
\* cached list only and get_scan_status counts it whole.
C19_ReadersSeeCompleteResults ==
    /\ \A u \in Users : opportunities_cache[u] = <<>>
    /\ [][\A u \in Users :
            opportunities_cache'[u] # opportunities_cache[u] =>
               \E t \in DOMAIN scan_tasks :
                  /\ scan_tasks[t].user = u
                  /\ CycleSucceeds(t)
                  /\ opportunities_cache'[u] = scan_tasks'[t].opportunities]_vars
    /\ [](\A u \in Users :
            LET cached == opportunities_cache[u] IN
            /\ \A limit \in 0..Len(cached) :
                  /\ Len(get_opportunities(u, limit)) = limit
                  /\ Range(get_opportunities(u, limit)) \subseteq Range(cached)
            /\ get_scan_status(u).is_scanning =>
                  get_scan_status(u).total_opportunities = Len(cached))

\* a reader calls while the next cycle is being computed: the cache holds
\* the finished result of the cycle before
C19_Witness ==
    \E t \in DOMAIN scan_tasks :
       /\ scan_tasks[t].pc = "fetch"
       /\ ~scan_tasks[t].cancel
       /\ opportunities_cache["u1"] # <<>>
       /\ opportunities_cache["u1"] = scan_tasks[t].opportunities
       /\ get_opportunities("u1", 1) = opportunities_cache["u1"]

\* the price matrix holds the pair (coin, exchange) with the given ticker
InMatrix(prices, coin, exchange, ticker) ==
    \E k \in DOMAIN prices :
       /\ prices[k].coin = coin
       /\ exchange \in Range(prices[k].exchange_list)
       /\ prices[k].quotes[exchange] = ticker

\* the price matrix has no entry for the pair
NotInMatrix(prices, coin, exchange) ==
    \A k \in DOMAIN prices :
       prices[k].coin = coin => exchange \notin Range(prices[k].exchange_list)

\* C20: the price matrix of a scan holds exactly the (coin, exchange) pairs
\* whose fetch succeeded, each with the ticker fetched; a failed fetch
\* removes its own pair only, and the scan is not counted as failed while
\* one fetch succeeded.
C20_FailedFetchRemovesOnlyItsPair ==
    /\ (scan_result # None /\ scan_result.op = "manual_scan") =>
          LET prices == scan_result.prices
              fetched == scan_input.fetched
          IN  /\ \A coin \in Range(scan_input.coins), e \in Range(scan_input.exchanges) :
                    IF fetched[<<coin, e>>] # None
                    THEN InMatrix(prices, coin, e, fetched[<<coin, e>>])
                    ELSE NotInMatrix(prices, coin, e)
              /\ (\E coin \in Range(scan_input.coins), e \in Range(scan_input.exchanges) :
                     fetched[<<coin, e>>] # None) => prices # <<>>
    /\ \A t \in DOMAIN scan_tasks :
          scan_tasks[t].pc = "backoff_empty" =>
             \A coin \in Range(scan_input.coins), e \in Range(scan_input.exchanges) :
                scan_input.fetched[<<coin, e>>] = None

\* a scan in which one exchange failed for a coin and another answered: the
\* coin is in the matrix with the exchange that answered
C20_Witness ==
    /\ scan_result # None
    /\ scan_result.op = "manual_scan"
    /\ \E coin \in Range(scan_input.coins) :
          \E e1, e2 \in Range(scan_input.exchanges) :
             /\ scan_input.fetched[<<coin, e1>>] = None
             /\ scan_input.fetched[<<coin, e2>>] # None
             /\ InMatrix(scan_result.prices, coin, e2, scan_input.fetched[<<coin, e2>>])
             /\ NotInMatrix(scan_result.prices, coin, e1)

\* the leg price is missing or zero; a ticker that could not be fetched has
\* no price at all
NoLegPrice(ticker, side) ==
    IF ticker = None THEN TRUE
    ELSE ticker[side].missing \/ ticker[side].value = 0

\* C21 (as stated): an evaluation in which the buy-leg ask or the sell-leg
\* bid is missing or zero returns a failure result (success = false).
C21_MissingPriceIsFailure ==
    calc_result # None =>
       ( ( \/ NoLegPrice(calc_input.tickers[calc_input.exchange_from], "ask")
           \/ NoLegPrice(calc_input.tickers[calc_input.exchange_to], "bid") )
         => ~calc_result.result.success )

\* the request names supported exchanges, coins the fee tables know and a
\* positive order size
ValidScanRequest(args) ==
    /\ \A k \in DOMAIN args.exchanges : args.exchanges[k] \in DOMAIN SUPPORTED_EXCHANGES
    /\ \A k \in DOMAIN args.coins :
          \A e \in DOMAIN SUPPORTED_EXCHANGES :
             args.coins[k] \in DOMAIN SUPPORTED_EXCHANGES[e].withdrawal_fees
    /\ args.order_size > 0

\* C22 (as stated): a request that names an unsupported exchange, an unknown
\* coin or a non-positive order size starts no scan session, and a manual
\* scan of it evaluates nothing.
C22_InvalidInputRejected ==
    /\ \A t \in DOMAIN scan_tasks : ValidScanRequest(scan_tasks[t].args)
    /\ \A u \in Users : active_scans[u] # None => ValidScanRequest(scan_input)
    /\ (scan_result # None /\ scan_result.op = "manual_scan" /\ ~ValidScanRequest(scan_input))
          => (scan_result.evaluated = <<>> /\ scan_result.opportunities = <<>>)

\* C23 (as stated): the step in which an iteration of a trading loop fails
\* appends an error entry to the user's log and leaves the loop task
\* running, ready for a further iteration.
C23_FailedIterationLogsError ==
    [][\A t \in DOMAIN tasks :
         (tasks[t].pc # "error_sleep" /\ tasks'[t].pc = "error_sleep")
            => /\ EmitsKind(tasks[t].user, "error")
               /\ Alive(t)'
               /\ ~tasks'[t].cancel]_vars

\* C24 (as stated): get_trade_history(u, limit) holds the min(limit, n) most
\* recently completed of u's n trades, the latest one first.
C24_HistoryNewestFirst ==
    \A u \in Users :
       LET n == Len(trade_history[u]) IN
       \A limit \in 0..(n + 1) :
          LET got == get_trade_history(u, limit) IN
          /\ Len(got) = Min(limit, n)
          /\ \A k \in DOMAIN got : got[k] = trade_history[u][n - k + 1]

\* the snapshot shows the session's flag, PnL total and active trades as
\* they are, and the min(10, n) newest of the n entries emitted, newest first
SnapshotShowsState(u) ==
    LET live == get_live_updates(u) IN
    /\ live.is_running = (active_bots[u] = "True")
    /\ live.pnl = (IF pnl_data[u] = None THEN 0 ELSE pnl_data[u].total_pnl)
    /\ live.active_trades = active_trades[u]
    /\ Len(live.latest_logs) = Min(10, log_seq[u])
    /\ \A k \in DOMAIN live.latest_logs : live.latest_logs[k].n = log_seq[u] - k + 1

NeverStarted(u) == active_bots[u] = Absent

C26_StartEntryBeforeLoopEntries ==
    /\ [][\A t \in DOMAIN tasks' :
            t \notin DOMAIN tasks =>
               LET u == tasks'[t].user IN
               /\ EmitsKind(u, "success")
               /\ Head(bot_logs'[u]).msg = "bot_started"
               /\ log_seq'[u] = log_seq[u] + 1
               /\ tasks'[t].pc = "new"]_vars
    /\ [][\A t \in DOMAIN tasks :
            LET u == tasks[t].user
                first == log_seq'[u] - log_seq[u]
            IN  (tasks[t].pc = "new" /\ tasks'[t].pc # "new" /\ first > 0) =>
                   /\ bot_logs'[u][first].kind = "search"
                   /\ bot_logs'[u][first].msg = "loop_started"
                   /\ \E k \in DOMAIN bot_logs'[u] :
                         /\ k > first
                         /\ bot_logs'[u][k].msg = "bot_started"
                         /\ bot_logs'[u][k].n < bot_logs'[u][first].n]_vars

\* a session has been started and its loop has emitted its first entries
C26_Witness ==
    \E t \in DOMAIN tasks :
       /\ tasks[t].pc = "fetch"
       /\ Len(bot_logs["u1"]) >= 3
       /\ bot_logs["u1"][Len(bot_logs["u1"])].msg = "bot_started"
       /\ bot_logs["u1"][Len(bot_logs["u1"]) - 1].msg = "loop_started"

\* C27: the PnL accumulator of a user exists exactly from the user's first
\* accepted start_trading on, created with total 0 and count 0; no later
\* start_trading and no stop_trading step changes its total, count or start
\* time or the trade history.
C27_PnlCreatedOnce ==
    /\ [](\A u \in Users : (pnl_data[u] = None) <=> (active_bots[u] = Absent))
    /\ [][\A u \in Users, s \in SettingsSet, p \in ParamsSet :
            StartTrading(u, s, p) =>
               /\ trade_history' = trade_history
               /\ IF pnl_data[u] = None
                  THEN /\ pnl_data'[u].total_pnl = 0
                       /\ pnl_data'[u].trades_count = 0
                  ELSE pnl_data'[u] = pnl_data[u]]_vars
    /\ [][StopStep => (pnl_data' = pnl_data /\ trade_history' = trade_history)]_vars

\* a session restarted after a stop, with the completed trade of the first
\* session still counted
C27_Witness ==
    /\ Len(tasks) = 2
    /\ active_bots["u1"] = "True"
    /\ \E c \in DOMAIN stop_calls : stop_calls[c].pc = "returned"
    /\ pnl_data["u1"].trades_count = 1
    /\ Len(trade_history["u1"]) = 1

RECURSIVE SumPnl(_)
SumPnl(trades) == IF trades = <<>> THEN 0 ELSE Head(trades).pnl + SumPnl(Tail(trades))

\* C28: in every state no trade of a user is both in the active set and in
\* the history, every trade in the history is completed, and the PnL
\* accumulator counts exactly the trades of the history and totals their
\* profit: a trade whose profit was added is in the history and no longer
\* active.
C28_CompletionAtomic ==
    \A u \in Users :
       /\ \A i \in DOMAIN active_trades[u], j \in DOMAIN trade_history[u] :
             active_trades[u][i].id # trade_history[u][j].id
       /\ \A j \in DOMAIN trade_history[u] : trade_history[u][j].status = "completed"
       /\ \A i \in DOMAIN active_trades[u] : active_trades[u][i].status = "active"
       /\ IF pnl_data[u] = None
          THEN trade_history[u] = <<>>
          ELSE /\ pnl_data[u].trades_count = Len(trade_history[u])
               /\ pnl_data[u].total_pnl = SumPnl(trade_history[u])

\* one cycle has completed and the next one has a trade in flight
C28_Witness ==
    /\ Len(trade_history["u1"]) = 1
    /\ pnl_data["u1"].total_pnl > 0
    /\ Len(active_trades["u1"]) = 1
    /\ \E t \in DOMAIN tasks : tasks[t].pc = "buy_sleep" /\ ~tasks[t].cancel

\* the step is a failed scan cycle of task t
CycleFails(t) ==
    /\ scan_tasks[t].pc = "fetch"
    /\ scan_tasks'[t].pc \in {"backoff_empty", "backoff_exc"}

\* C29: every successful cycle, also one that found nothing, sets the
\* consecutive-error counter to zero, every failed cycle adds one to it and
\* no other step changes it, and a scan loop that was not cancelled ends only
\* with the counter at the limit of 5: only five failed cycles in a row end
\* the session.
C29_OnlyFiveFailuresInARowEnd ==
    /\ [](\A t \in DOMAIN scan_tasks : scan_tasks[t].consecutive_errors \in 0..MaxErrors)
    /\ [][\A t \in DOMAIN scan_tasks :
            /\ CycleSucceeds(t) => scan_tasks'[t].consecutive_errors = 0
            /\ CycleFails(t) =>
                 scan_tasks'[t].consecutive_errors = scan_tasks[t].consecutive_errors + 1
            /\ scan_tasks[t].pc # "fetch" =>
                 scan_tasks'[t].consecutive_errors = scan_tasks[t].consecutive_errors
            /\ (scan_tasks[t].pc # "done" /\ scan_tasks'[t].pc = "done" /\ ~scan_tasks[t].cancel)
                 => scan_tasks[t].consecutive_errors = MaxErrors]_vars

\* a failed cycle, later a successful cycle that found nothing, and a failed
\* cycle again: the session is alive with the counter at one
C29_Witness ==
    \E t \in DOMAIN scan_tasks :
       /\ scan_tasks[t].recovered
       /\ scan_tasks[t].opportunities = <<>>
       /\ scan_tasks[t].pc = "backoff_empty"
       /\ scan_tasks[t].consecutive_errors = 1
       /\ active_scans[scan_tasks[t].user] # None

\* C30 (as stated): for the same coin, exchanges, prices and order size the
\* total fee and the net profit of the analyzer and of the scanner equal
\* those of the calculator, whose total fee is the sum of buy fee, sell fee,
\* withdrawal fee, network fee and slippage.
C30_SameFeesEverywhere ==
    (calc_result # None /\ ~calc_result.result.raised) =>
        LET in == calc_input
            r == calc_result.result
            five == SingleTradeFees(in.coin, in.buy_exchange, in.sell_exchange,
                                    in.buy_price, in.order_size)
            calc == _calculate_single_trade(in.coin, in.buy_exchange, in.sell_exchange,
                                            in.buy_price, in.sell_price, in.order_size)
        IN  CASE calc_result.op = "calculator" ->
                   r.fees.total_fees = Round(Frac(five, FeeDen), 2)
              [] calc_result.op = "analyzer" ->
                   /\ r.fees.total_fees = calc.fees.total_fees
                   /\ r.net_profit.net_profit = calc.profit.net_profit
              [] calc_result.op = "scanner" ->
                   /\ r.fees.total_fees = five
                   /\ Round(r.net_profit.net_profit, 2) = calc.profit.net_profit
\* ---------------------------------------------------------------- C31
\* C31: _check_network_status returns the cached status only when the entry was
\* stored less than cache_ttl seconds before the call, whatever the elapsed
\* time (more than a day included); an entry that old or older is recomputed.
C31_CachedOnlyWithinTtl ==
    network_result # None =>
        /\ network_result.from_cache =>
               network_result.had_entry /\ network_result.age < cache_ttl
        /\ (network_result.had_entry /\ network_result.age >= cache_ttl) =>
               ~network_result.from_cache
\* ---------------------------------------------------------------- C32
InScoreRange(n) == n \in 0..100

\* C32: whatever the spread, the profit percent (negative ones included), the
\* execution time, the network status and the volumes, every risk score and
\* every profitability score the analyzer computes is an integer in 0..100.
C32_ScoresInRange ==
    (calc_result # None /\ ~calc_result.result.raised) =>
        /\ calc_result.op = "risk" => InScoreRange(calc_result.result.score)
        /\ calc_result.op = "scores" =>
               /\ InScoreRange(calc_result.result.risk)
               /\ InScoreRange(calc_result.result.profitability)

\* a negative profit with more than 100 risk points was scored
C32_Witness ==
    /\ calc_result # None /\ calc_result.op = "scores" /\ ~calc_result.result.raised
    /\ calc_input.profit_percent < 0
    /\ RiskPoints(calc_input.spread, calc_input.network_status,
                  calc_input.execution_time, calc_input.prices) > 100
    /\ calc_result.result.risk = 100
    /\ calc_result.result.profitability = 2
\* ---------------------------------------------------------------- C33
\* everything the engine holds for user u: flag, registered task, settings,
\* parameters, active trades, history, logs, PnL accumulator and u's loop tasks
UserState(u) ==
    [active_bots |-> active_bots[u], bot_tasks |-> bot_tasks[u],
     user_settings |-> user_settings[u], trade_params |-> trade_params[u],
     active_trades |-> active_trades[u], trade_history |-> trade_history[u],
     bot_logs |-> bot_logs[u], pnl_data |-> pnl_data[u],
     tasks |-> [t \in {k \in DOMAIN tasks : tasks[k].user = u} |-> tasks[t]]]

\* the step is a call for user a, the continuation of one, or a step of one
\* of a's loop tasks
OperationOn(a) ==
    \/ \E s \in SettingsSet, p \in StartParams : Call(StartTrading(a, s, p))
    \/ Call(StopTradingCall(a))
    \/ \E c \in DOMAIN stop_calls : stop_calls[c].user = a /\ Cont(StopTradingResume(c))
    \/ \E p \in ParamsSet : Call(UpdateParameters(a, p))
    \/ \E t \in DOMAIN tasks :
           /\ tasks[t].user = a
           /\ \/ Cont(TaskCancelled(t))
              \/ Step(LoopHead(t))
              \/ Step(ArbitrageFetched(t))
              \/ Step(ArbitrageLeg(t))
              \/ Step(ArbitrageComplete(t))
              \/ Step(MarginEntry(t))

\* C33: an operation on user A (start, stop, update, a cycle of A's loop, its
\* cancellation) leaves user B's flag, task, parameters, active trades,
\* history, logs and PnL accumulator unchanged, for every other user B.
C33_UsersIndependent ==
    [][\A a \in Users : OperationOn(a) =>
           \A b \in Users \ {a} : UserState(b)' = UserState(b)]_vars

\* both users run a session: u2 has completed a trade while u1 holds an
\* open one
C33_Witness ==
    /\ active_bots["u1"] = "True" /\ active_bots["u2"] = "True"
    /\ Len(trade_history["u2"]) > 0
    /\ Len(active_trades["u1"]) > 0
\* ---------------------------------------------------------------- C34
\* C34 (as stated): a start_trading(u) that fails with an error other than
\* "already running" leaves u stopped: the flag is not true and no task was
\* created, and a following start_trading(u) with valid settings is accepted.
C34_FailedStartLeavesStopped ==
    [][\A u \in Users, s \in SettingsSet, p \in ParamsSet :
         StartTrading(u, s, p) =>
            /\ start_outcome'[u] = "key_error" =>
                   (active_bots'[u] # "True" /\ tasks' = tasks)
            /\ (start_outcome[u] = "key_error" /\ s # "no_trade_type") =>
                   start_outcome'[u] = "started"]_vars
\* ---------------------------------------------------------------- C35
\* C35 (as stated): when start_trading(u) ran while a stop_trading(u) was
\* suspended on the old loop, the stop that resumes leaves the new loop's
\* registration in place: bot_tasks[u] still holds the new task afterwards.
C35_NewLoopStaysRegistered ==
    [][\A c \in DOMAIN stop_calls :
         ( /\ StopTradingResume(c)
           /\ bot_tasks[stop_calls[c].user] \notin {NoTask, stop_calls[c].task}
           /\ active_bots[stop_calls[c].user] = "True" )
         => bot_tasks'[stop_calls[c].user] = bot_tasks[stop_calls[c].user]]_vars

\* ---------------------------------------------------------------- C36
\* C36 (as stated): two stop_trading(u) calls that overlap on the same running
\* session (both cancelled and awaited the same loop task) complete without
\* raising, and once both have returned, with no start since, the flag is
\* false and no task is registered.
C36_OverlappingStopsComplete ==
    \A c1, c2 \in DOMAIN stop_calls :
        ( /\ c1 < c2
          /\ stop_calls[c1].user = stop_calls[c2].user
          /\ stop_calls[c1].task = stop_calls[c2].task
          /\ stop_calls[c1].task # NoTask )
        => /\ stop_calls[c1].pc # "raised"
           /\ stop_calls[c2].pc # "raised"
           /\ ( /\ stop_calls[c1].pc = "returned" /\ stop_calls[c2].pc = "returned"
                /\ \A t \in DOMAIN tasks : tasks[t].user = stop_calls[c1].user
                                            => t <= stop_calls[c1].task )
              => ( /\ active_bots[stop_calls[c1].user] = "False"
                   /\ bot_tasks[stop_calls[c1].user] = NoTask )
\* ---------------------------------------------------------------- C37
\* C37 (as stated): the exit of an old scan loop never deletes the registry
\* entry of a newer session: whenever a scan loop task of u is alive and not
\* cancelled, active_scans holds u's entry with that task.
C37_LoopRemovesOnlyOwnEntry ==
    \A t \in DOMAIN scan_tasks :
        (ScanAlive(t) /\ ~scan_tasks[t].cancel)
            => /\ active_scans[scan_tasks[t].user] # None
               /\ active_scans[scan_tasks[t].user].task = t
\* ---------------------------------------------------------------- C38
\* C38: in every state, whatever starts, stops, completed cycles, failed
\* cycles and cancellations in the middle of a cycle came before, get_status
\* and get_statistics report the same number of trades and the same total
\* PnL for every user: the accumulator counts and totals the history.
C38_StatusMatchesStatistics ==
    \A u \in Users :
        /\ get_status(u).total_trades = get_statistics(u).total_trades
        /\ get_status(u).total_pnl = get_statistics(u).total_pnl

\* one cycle completed and was counted, and another iteration failed
C38_Witness ==
    /\ get_statistics("u1").total_trades = 1
    /\ get_status("u1").total_pnl > 0
    /\ \E i \in DOMAIN bot_logs["u1"] : bot_logs["u1"][i].kind = "error"
\* ---------------------------------------------------------------- C39
\* the step is the start of a trade by arbitrage loop task t
TradeStarts(t) ==
    /\ tasks[t].kind = "arbitrage"
    /\ tasks[t].pc = "fetch"
    /\ tasks'[t].pc = "buy_sleep"

====
